---- MODULE Spec2Model ----
(***************************************************************************)
(* Model of lukeburns/bib: the API cache (lib/cache.js), the Semantic      *)
(* Scholar client (SemanticScholarAPI in lib/gap-analyzer.js) and the gap  *)
(* analyzer (GapAnalyzer in lib/gap-analyzer.js).                          *)
(*                                                                         *)
(* Time is the value of Date.now() in milliseconds.  A JavaScript Map is a *)
(* function whose DOMAIN is the set of keys the Map has.                   *)
(***************************************************************************)
EXTENDS Integers, Sequences, FiniteSets, TLC

\* ------------------------------------------------------------------------
\* Program constants
\* ------------------------------------------------------------------------
maxAge == 604800000
rateLimitDelay == 1100
maxRetries == 4
baseBackoffTime == 3000
maxBackoffTime == 30000
requestTimeout == 15000

\* ------------------------------------------------------------------------
\* Bounds of the model
\* ------------------------------------------------------------------------
\* how many file-system operations may fail in one run
MaxFaults == 1

\* Date.now() when the run starts (any value far above rateLimitDelay)
StartTime == 10 * rateLimitDelay

\* request paths and JSON payloads; Null is JavaScript's null
Paths == {"/p1", "/p2"}
Null == "null"
Bodies == {"b1"}
Payloads == Bodies \cup {Null}

VARIABLES
    now,            \* Date.now()
    memoryCache,    \* APICache.memoryCache : key -> {data, timestamp, requestPath}
    cacheIndex,     \* APICache.cacheIndex  : key -> {timestamp, requestPath}
    files,          \* <cacheDir>/<key>.json : key -> file content
    indexFile,      \* <cacheDir>/index.json
    faults,         \* the file-system operations that failed so far:
                    \* {write, unlink}, how many writes, how many deletions
    written,        \* path -> {data, at} of the latest set() since new/clear
    cacheOp,        \* the cache operation that ran last: {op, path, found},
                    \* found: the branch a get took
    cacheRet,       \* what that operation returned: {ret, hit}
    lastRequestTime,\* SemanticScholarAPI.lastRequestTime, the rate limiter's watermark
    pc,             \* where the sequential caller of makeRequest stands
    reqPath,        \* makeRequest's path
    retryCount,     \* makeRequest's retryCount
    result,         \* how the latest makeRequest ended: {kind, data, fromCache, reason}
    calls,          \* number of top-level makeRequest calls made so far
    sends,          \* network requests issued by the current top-level call
    stamps,         \* <<watermark at the previous network request, at the latest>>
    backoffs,       \* the backoff sleeps of the current top-level call, in order
    lastOutcome,    \* outcome of the latest network attempt of the current call
    notFoundAt,     \* path -> time of its latest 404 response
    callInfo,       \* what the current top-level call found when it was made:
                    \* {path, fresh, payload, notFound, watermark}
    pair,           \* makeRequest calls running side by side on the client:
                    \* {at, due, path, retry, read, beside, entries, issued}
    inputs,         \* findGaps: can the .bib and the .tex file be read
    bpc,            \* findGaps: where the batch stands
    idx,            \* number of source records the loop has taken up
    ids,            \* extractIdentifiers(citation) of the record being looked up
    paper,          \* the paper findPaper has in hand for it
    referencesMap,  \* citation key -> kind of its reference list
    successCount,
    errorCount,
    finished,       \* how findGaps ended: "running", "returned", "raised"
    rejected,       \* did a request of the record being looked up fail
    failedLookups,  \* records whose lookup failed so far
    consecFailed,   \* failed lookups in a row up to the latest finished record
    fallback,       \* the lookup under way: {via, primary, lookups, outcome}:
                    \* which lookup resolved it, with which body, how many
                    \* CrossRef lookups were issued, how the latest ended
    tried,          \* the strategies findPaper has tried for the record, in
                    \* order: {strategy, ok}, ok when it returned a paper
    inFlight,       \* the records whose lookup has started and not yet ended
    cited,          \* the citation keys of the document, in document order
    remote,         \* citation key -> the reference list the providers return for it
    gapsCall,       \* the options of the latest findGaps call
    gapsResult,     \* what it returned, with the aggregation it was filtered from
    agg,            \* analyzeGaps under way: {at, existing, todo, done, frequency}
    cites           \* a CitationAnalyzer and what was asked of it: {bib, used,
                    \* asked, stats, unused, handed, index}

cacheVars == <<memoryCache, cacheIndex, files, indexFile>>
envVars == <<now, faults>>
cacheGhost == <<written, cacheOp, cacheRet>>
clientVars == <<lastRequestTime, pc, reqPath, retryCount, result, calls, sends,
                stamps, backoffs, lastOutcome, notFoundAt, callInfo, pair>>
gapVars == <<cited, remote, gapsCall, gapsResult, agg, cites>>
batchVars == <<inputs, bpc, idx, ids, paper, referencesMap, successCount, errorCount,
               finished, rejected, failedLookups, consecFailed, fallback, tried,
               inFlight, gapVars>>
vars == <<now, faults, memoryCache, cacheIndex, files, indexFile,
          written, cacheOp, cacheRet, lastRequestTime, pc, reqPath, retryCount,
          result, calls, sends, stamps, backoffs, lastOutcome, notFoundAt, callInfo,
          pair, inputs, bpc, idx, ids, paper, referencesMap, successCount, errorCount,
          finished, rejected, failedLookups, consecFailed, fallback, tried, inFlight,
          cited, remote, gapsCall, gapsResult, agg, cites>>

\* ------------------------------------------------------------------------
\* Map helpers
\* ------------------------------------------------------------------------
EmptyMap == <<>>
MapSet(m, k, v) == [x \in (DOMAIN m) \cup {k} |-> IF x = k THEN v ELSE m[x]]
MapDelete(m, k) == [x \in (DOMAIN m) \ {k} |-> m[x]]
MapRestrict(m, S) == [x \in (DOMAIN m) \cap S |-> m[x]]

\* ------------------------------------------------------------------------
\* lib/cache.js
\* ------------------------------------------------------------------------
\* md5 of the request path: distinct paths of the model get distinct keys
generateCacheKey(requestPath) == <<"md5", requestPath>>
Keys == {generateCacheKey(p) : p \in Paths}

\* JSON.stringify / JSON.parse of a cache entry.  A file holds text; text
\* that is not the stringification of an entry does not parse.
Stringify(entry) == [json |-> TRUE, value |-> entry]
CorruptText == [json |-> FALSE,
                value |-> [data |-> Null, timestamp |-> 0, requestPath |-> ""]]
Parses(text) == text.json
Parse(text) == text.value

\* mutant of isValid: the subtraction the wrong way round
isValidSwapped(timestamp, t) == (timestamp - t) < maxAge
isValid(timestamp, t) == (t - timestamp) < maxAge

\* saveCacheIndex(): writes index.json; a failed write is swallowed
saveCacheIndex(c, saveOk) ==
    IF saveOk THEN [c EXCEPT !.indexFile = [state |-> "ok", index |-> c.cacheIndex]]
    ELSE c

\* loadCacheIndex(): index.json into cacheIndex, empty when missing or corrupt
loadCacheIndex(idxFile) ==
    IF idxFile.state = "ok" THEN idxFile.index ELSE EmptyMap

\* get(requestPath) at time t.  io.unlinkOk: unlinkSync of an existing file
\* succeeds; io.saveOk: the write of index.json succeeds.
\* The result is [ret, hit, c]: hit is FALSE when get returns its final
\* `return null` (absent); ret is the value returned.
\* mutant of evictUnreadable: the index keeps the key
evictUnreadableKeepsIndex(c, key, io) == c
\* the catch block of get's disk branch ("File corrupted or missing, remove
\* from index"): the key leaves the index and the index is saved
evictUnreadable(c, key, io) ==
    saveCacheIndex([c EXCEPT !.cacheIndex = MapDelete(c.cacheIndex, key)], io.saveOk)

\* mutant of loadIntoMemory: the entry read from disk is not kept
loadIntoMemoryNotKept(c, key, cached) == c
\* "Load into memory cache for faster future access"
loadIntoMemory(c, key, cached) ==
    [c EXCEPT !.memoryCache = MapSet(c.memoryCache, key, cached)]

get(c, requestPath, t, io) ==
    LET key == generateCacheKey(requestPath)
        memHas == key \in DOMAIN c.memoryCache
        memFresh == memHas /\ isValid(c.memoryCache[key].timestamp, t)
        c1 == IF memHas /\ ~memFresh
              THEN [c EXCEPT !.memoryCache = MapDelete(c.memoryCache, key)]
              ELSE c
    IN  IF memFresh
        THEN [ret |-> c.memoryCache[key].data, hit |-> TRUE, c |-> c]
        ELSE IF key \notin DOMAIN c1.cacheIndex
        THEN [ret |-> Null, hit |-> FALSE, c |-> c1]
        ELSE IF isValid(c1.cacheIndex[key].timestamp, t)
        THEN IF key \in DOMAIN c1.files /\ Parses(c1.files[key])
             THEN LET cached == Parse(c1.files[key])
                  IN  [ret |-> cached.data, hit |-> TRUE,
                       c |-> loadIntoMemory(c1, key, cached)]
             ELSE [ret |-> Null, hit |-> FALSE, c |-> evictUnreadable(c1, key, io)]
        ELSE [ret |-> Null, hit |-> FALSE,
              c |-> saveCacheIndex(
                       [c1 EXCEPT !.cacheIndex = MapDelete(c1.cacheIndex, key),
                                  !.files = IF io.unlinkOk THEN MapDelete(c1.files, key)
                                            ELSE c1.files],
                       io.saveOk)]

\* what a throw hands to the caller in place of a return value
Thrown == "thrown"
\* mutant of setCatch: the write error is thrown on to the caller
setCatchRethrows(io) == IF io.writeOk THEN Null ELSE Thrown
\* set's try { ... } catch (error) { console.warn(...) }: what the caller of
\* set gets when the write of the entry file went as io says: set returns
\* (undefined) also when the write failed
setCatch(io) == Null

\* the branch get(requestPath) takes at time t: the entry is fresh in the
\* in-process map ("hot"), the index does not list the key ("unlisted"), the
\* index entry is expired ("expired"), its file is missing or does not parse
\* ("unreadable"), or the file is read ("stored")
foundBy(c, requestPath, t) ==
    LET key == generateCacheKey(requestPath)
    IN  IF key \in DOMAIN c.memoryCache /\ isValid(c.memoryCache[key].timestamp, t)
        THEN "hot"
        ELSE IF key \notin DOMAIN c.cacheIndex THEN "unlisted"
        ELSE IF ~isValid(c.cacheIndex[key].timestamp, t) THEN "expired"
        ELSE IF key \in DOMAIN c.files /\ Parses(c.files[key]) THEN "stored"
        ELSE "unreadable"

\* set(requestPath, data) at time t.  io.writeOk: writeFileSync of the entry
\* file succeeds; when it fails the file is left as it was or is left
\* truncated (io.partial); io.saveOk as above.
set(c, requestPath, data, t, io) ==
    LET key == generateCacheKey(requestPath)
        cacheEntry == [data |-> data, timestamp |-> t, requestPath |-> requestPath]
        c1 == [c EXCEPT !.memoryCache = MapSet(c.memoryCache, key, cacheEntry)]
    IN  IF io.writeOk
        THEN saveCacheIndex(
                [c1 EXCEPT !.files = MapSet(c1.files, key, Stringify(cacheEntry)),
                           !.cacheIndex = MapSet(c1.cacheIndex, key,
                               [timestamp |-> t, requestPath |-> requestPath])],
                io.saveOk)
        ELSE IF io.partial
        THEN [c1 EXCEPT !.files = MapSet(c1.files, key, CorruptText)]
        ELSE c1

\* mutants of cleanup: only the in-process map is swept; only the index and
\* the files are
cleanupHotTierOnly(c, t, io) ==
    LET memExpired == {k \in DOMAIN c.memoryCache : ~isValid(c.memoryCache[k].timestamp, t)}
    IN  [ret |-> Cardinality(memExpired),
         c |-> [c EXCEPT !.memoryCache =
                    MapRestrict(c.memoryCache, (DOMAIN c.memoryCache) \ memExpired)]]
cleanupDurableTierOnly(c, t, io) ==
    LET idxExpired == {k \in DOMAIN c.cacheIndex : ~isValid(c.cacheIndex[k].timestamp, t)}
        c1 == [c EXCEPT
                 !.cacheIndex = MapRestrict(c.cacheIndex, (DOMAIN c.cacheIndex) \ idxExpired),
                 !.files = MapRestrict(c.files, (DOMAIN c.files) \ idxExpired)]
    IN  [ret |-> Cardinality(idxExpired),
         c |-> IF idxExpired # {} THEN saveCacheIndex(c1, io.saveOk) ELSE c1]
\* cleanup() at time t: [ret, c], ret is removedCount
cleanup(c, t, io) ==
    LET memExpired == {k \in DOMAIN c.memoryCache : ~isValid(c.memoryCache[k].timestamp, t)}
        idxExpired == {k \in DOMAIN c.cacheIndex : ~isValid(c.cacheIndex[k].timestamp, t)}
        removedCount == Cardinality(memExpired) + Cardinality(idxExpired)
        c1 == [c EXCEPT
                 !.memoryCache = MapRestrict(c.memoryCache, (DOMAIN c.memoryCache) \ memExpired),
                 !.cacheIndex = MapRestrict(c.cacheIndex, (DOMAIN c.cacheIndex) \ idxExpired),
                 !.files = IF io.unlinkOk
                           THEN MapRestrict(c.files, (DOMAIN c.files) \ idxExpired)
                           ELSE c.files]
    IN  [ret |-> removedCount,
         c |-> IF removedCount > 0 THEN saveCacheIndex(c1, io.saveOk) ELSE c1]

\* clear(): readdirSync lists the entry files and index.json; `deleted` are
\* the names unlinked before an unlink (or the readdir itself) throws.  With
\* io.unlinkOk nothing throws: every .json file is unlinked, the index is
\* cleared and saved.
IndexName == <<"index.json">>
DirEntries(c) ==
    (DOMAIN c.files) \cup (IF c.indexFile.state = "missing" THEN {} ELSE {IndexName})
clear(c, deleted, io) ==
    LET c1 == [c EXCEPT !.memoryCache = EmptyMap]
        c2 == [c1 EXCEPT !.files = MapRestrict(c1.files, (DOMAIN c1.files) \ deleted),
                         !.indexFile = IF IndexName \in deleted
                                       THEN [state |-> "missing", index |-> EmptyMap]
                                       ELSE c1.indexFile]
    IN  IF io.unlinkOk
        THEN saveCacheIndex([c2 EXCEPT !.cacheIndex = EmptyMap], io.saveOk)
        ELSE c2

\* the cache object as a record, and back
Cache == [memoryCache |-> memoryCache, cacheIndex |-> cacheIndex,
          files |-> files, indexFile |-> indexFile]
CacheBecomes(c) ==
    /\ memoryCache' = c.memoryCache
    /\ cacheIndex' = c.cacheIndex
    /\ files' = c.files
    /\ indexFile' = c.indexFile

\* no file-system operation has failed
NoFaults == [write |-> 0, unlink |-> 0]

IOs == [unlinkOk : BOOLEAN, saveOk : BOOLEAN, writeOk : BOOLEAN, partial : BOOLEAN]
NoFault == [unlinkOk |-> TRUE, saveOk |-> TRUE, writeOk |-> TRUE, partial |-> FALSE]
\* the file-system outcomes of an operation that reads the flags in `reads`
IOFor(reads) ==
    {io \in IOs : /\ \A f \in {"unlinkOk", "saveOk", "writeOk", "partial"} \ reads : io[f] = NoFault[f]
                  /\ io.partial => ~io.writeOk
                  /\ io # NoFault => faults.write + faults.unlink < MaxFaults}
\* the same outcome with every write succeeding
WritesOk(io) == [io EXCEPT !.writeOk = TRUE, !.saveOk = TRUE, !.partial = FALSE]
\* an outcome counts as a fault when it changed what the operation did, and
\* as a failed write when the writes succeeding would have changed it
Faulted(after, afterNoFault, afterWritesOk) ==
    faults' = IF after = afterNoFault THEN faults
              ELSE IF after = afterWritesOk
              THEN [faults EXCEPT !.unlink = @ + 1]
              ELSE [faults EXCEPT !.write = @ + 1]

\* ------------------------------------------------------------------------
\* Specification SpecCache: one APICache object used by a sequential caller
\* ------------------------------------------------------------------------
\* the client as its constructor leaves it (SemanticScholarAPI constructor)
NoResult == [kind |-> "none", data |-> Null, fromCache |-> FALSE, reason |-> ""]
Never == -1
\* the callers that may have a makeRequest running at the same time
Procs == {1, 2}
\* no makeRequest running: every caller between two calls, nothing issued
NoPair == [at |-> [i \in Procs |-> "idle"], due |-> [i \in Procs |-> Never],
           path |-> [i \in Procs |-> ""], retry |-> [i \in Procs |-> 0],
           read |-> [i \in Procs |-> 0], beside |-> [i \in Procs |-> FALSE],
           entries |-> 0, issued |-> <<>>]
ClientAtRest ==
    /\ lastRequestTime = 0
    /\ pc = "idle"
    /\ reqPath = ""
    /\ retryCount = 0
    /\ result = NoResult
    /\ calls = 0
    /\ sends = 0
    /\ stamps = <<Never, Never>>
    /\ backoffs = <<>>
    /\ lastOutcome = "none"
    /\ notFoundAt = EmptyMap
    /\ callInfo = [path |-> "", fresh |-> FALSE, payload |-> Null,
                   notFound |-> FALSE, watermark |-> 0]
    /\ pair = NoPair

\* no document analysed
NoCall == [called |-> FALSE, minCitations |-> 0, includeUnused |-> FALSE]
NoGaps == [gaps |-> <<>>, totalAnalyzed |-> 0,
           summary |-> [highPriority |-> 0, mediumPriority |-> 0, totalGaps |-> 0],
           frequency |-> <<>>, applied |-> 0]
\* analyzeGaps not entered
NoIndex == [byDOI |-> {}, byNormalizedTitle |-> {}, byTitleAndYear |-> {}]
NoAggregation == [at |-> "rest", existing |-> NoIndex, todo |-> <<>>, done |-> <<>>,
                  frequency |-> <<>>]
\* a CitationAnalyzer over the files bib and used, nothing asked of it yet
NoStats == [totalInBib |-> 0, totalUsed |-> 0, totalUnused |-> 0, missingFromBib |-> 0]
NoMaps == [byDOI |-> EmptyMap, byISBN |-> EmptyMap, byNormalizedTitle |-> EmptyMap,
           byTitleAndYear |-> EmptyMap]
Unasked(bib, used) ==
    [bib |-> bib, used |-> used, asked |-> {}, stats |-> NoStats, unused |-> <<>>,
     handed |-> <<>>, index |-> NoMaps]
GapsAtRest ==
    /\ cited = <<>>
    /\ remote = EmptyMap
    /\ gapsCall = NoCall
    /\ gapsResult = NoGaps
    /\ agg = NoAggregation
    /\ cites = Unasked(<<>>, <<>>)

\* no lookup resolved, no CrossRef lookup issued
NoFallback == [via |-> "none", primary |-> "none", lookups |-> 0, outcome |-> "none"]

\* no findGaps under way
BatchAtRest ==
    /\ inputs = [bib |-> TRUE, tex |-> TRUE]
    /\ bpc = "rest"
    /\ idx = 0
    /\ ids = [doi |-> FALSE, arxiv |-> FALSE, title |-> FALSE]
    /\ paper = "none"
    /\ referencesMap = EmptyMap
    /\ successCount = 0
    /\ errorCount = 0
    /\ finished = "running"
    /\ rejected = FALSE
    /\ failedLookups = 0
    /\ consecFailed = 0
    /\ fallback = NoFallback
    /\ tried = <<>>
    /\ inFlight = {}
    /\ GapsAtRest

InitCache ==
    /\ now = StartTime
    /\ faults = NoFaults
    /\ memoryCache = EmptyMap
    /\ cacheIndex = EmptyMap
    /\ files = EmptyMap
    /\ indexFile = [state |-> "missing", index |-> EmptyMap]
    /\ written = EmptyMap
    /\ cacheOp = [op |-> "new", path |-> "", found |-> "none"]
    /\ cacheRet = [ret |-> Null, hit |-> FALSE]
    /\ ClientAtRest
    /\ BatchAtRest

\* new APICache(): a later run of the program over the same cache directory
CacheNew ==
    /\ memoryCache' = EmptyMap
    /\ cacheIndex' = loadCacheIndex(indexFile)
    /\ written' = EmptyMap
    /\ cacheOp' = [op |-> "new", path |-> "", found |-> "none"]
    /\ cacheRet' = [ret |-> Null, hit |-> FALSE]
    /\ UNCHANGED <<envVars, files, indexFile, clientVars, batchVars>>

CacheSet ==
    \E p \in Paths, d \in Payloads, io \in IOFor({"writeOk", "partial", "saveOk"}) :
        /\ CacheBecomes(set(Cache, p, d, now, io))
        /\ Faulted(set(Cache, p, d, now, io), set(Cache, p, d, now, NoFault),
                   set(Cache, p, d, now, WritesOk(io)))
        /\ written' = MapSet(written, p, [data |-> d, at |-> now])
        /\ cacheOp' = [op |-> "set", path |-> p, found |-> "none"]
        /\ cacheRet' = [ret |-> setCatch(io), hit |-> FALSE]
        /\ UNCHANGED <<now, clientVars, batchVars>>

CacheGet ==
    \E p \in Paths, io \in IOFor({"unlinkOk", "saveOk"}) :
        LET r == get(Cache, p, now, io)
        IN  /\ CacheBecomes(r.c)
            /\ Faulted(r, get(Cache, p, now, NoFault), get(Cache, p, now, WritesOk(io)))
            /\ cacheOp' = [op |-> "get", path |-> p, found |-> foundBy(Cache, p, now)]
            /\ cacheRet' = [ret |-> r.ret, hit |-> r.hit]
            /\ UNCHANGED <<now, written, clientVars, batchVars>>

CacheCleanup ==
    \E io \in IOFor({"unlinkOk", "saveOk"}) :
        LET r == cleanup(Cache, now, io)
        IN  /\ CacheBecomes(r.c)
            /\ Faulted(r, cleanup(Cache, now, NoFault), cleanup(Cache, now, WritesOk(io)))
            /\ cacheOp' = [op |-> "cleanup", path |-> "", found |-> "none"]
            /\ cacheRet' = [ret |-> r.ret, hit |-> FALSE]
            /\ UNCHANGED <<now, written, clientVars, batchVars>>

CacheClear ==
    \E io \in IOFor({"unlinkOk", "saveOk"}), deleted \in SUBSET DirEntries(Cache) :
        /\ io.unlinkOk => deleted = DirEntries(Cache)
        /\ ~io.unlinkOk => (deleted # DirEntries(Cache) \/ DirEntries(Cache) = {})
        /\ CacheBecomes(clear(Cache, deleted, io))
        /\ Faulted(clear(Cache, deleted, io), clear(Cache, DirEntries(Cache), NoFault),
                   clear(Cache, deleted, WritesOk(io)))
        /\ written' = EmptyMap
        /\ cacheOp' = [op |-> "clear", path |-> "", found |-> "none"]
        /\ cacheRet' = [ret |-> Null, hit |-> FALSE]
        /\ UNCHANGED <<now, clientVars, batchVars>>

\* the clock advances between two operations of the caller, to one of the
\* instants around the expiry of what was written at the start
Instants ==
    {StartTime + maxAge - 1, StartTime + maxAge, StartTime + maxAge + 1}
Advance ==
    \E t \in Instants :
        /\ t > now
        /\ now' = t
        /\ cacheOp' = [op |-> "advance", path |-> "", found |-> "none"]
        /\ cacheRet' = [ret |-> Null, hit |-> FALSE]
        /\ UNCHANGED <<faults, cacheVars, written, clientVars, batchVars>>

NextCache == CacheNew \/ CacheSet \/ CacheGet \/ CacheCleanup \/ CacheClear \/ Advance

SpecCache == InitCache /\ [][NextCache]_vars

\* ------------------------------------------------------------------------
\* SemanticScholarAPI (lib/gap-analyzer.js): rateLimit and makeRequest
\* ------------------------------------------------------------------------
\* bounds of the client model
MaxCalls == 2
\* time from issuing a request to its response or connection error
NetLatency == 200
\* how late a setTimeout may fire
TimerLag == 7
Lags == {0, TimerLag}
Min(a, b) == IF a < b THEN a ELSE b
RECURSIVE Pow2(_)
Pow2(n) == IF n = 0 THEN 1 ELSE 2 * Pow2(n - 1)

\* mutant of rateLimitSleep: the comparison inverted, so it never sleeps
rateLimitSleepInverted(last, t) ==
    LET elapsed == t - last
    IN  IF elapsed > rateLimitDelay /\ rateLimitDelay - elapsed > 0
        THEN rateLimitDelay - elapsed ELSE 0
\* rateLimit(): how long it sleeps when called at time t
rateLimitSleep(last, t) ==
    LET elapsed == t - last
    IN  IF elapsed < rateLimitDelay THEN rateLimitDelay - elapsed ELSE 0

\* the 429 branch: is the request retried, and after which sleep
\* mutants of shouldRetry: one retry too many; every failing status retried
shouldRetryOffByOne(statusCode, k) == statusCode = 429 /\ k <= maxRetries
shouldRetryAnyStatus(statusCode, k) == k < maxRetries
shouldRetry(statusCode, k) == statusCode = 429 /\ k < maxRetries
\* mutant of backoffTime: linear instead of exponential
backoffTimeLinear(k) == Min(baseBackoffTime * (k + 1), maxBackoffTime)
backoffTime(k) == Min(baseBackoffTime * Pow2(k), maxBackoffTime)

Resolved(data, fromCache) ==
    [kind |-> "resolved", data |-> data, fromCache |-> fromCache, reason |-> ""]
Rejected(reason) ==
    [kind |-> "rejected", data |-> Null, fromCache |-> FALSE, reason |-> reason]

\* makeRequest(path, k) entered at time t: the cache is consulted; a cached
\* result other than null resolves the request, anything else goes on to
\* the rate limiter.
makeRequestEnter(path, k, t) ==
    LET r == get(Cache, path, t, NoFault)
    IN  /\ CacheBecomes(r.c)
        /\ reqPath' = path
        /\ retryCount' = k
        /\ IF r.ret # Null
           THEN /\ result' = Resolved(r.ret, TRUE)
                /\ pc' = "idle"
           ELSE /\ result' = NoResult
                /\ pc' = "rateLimit"

\* a top-level makeRequest(p) of the sequential caller, issued `pause`
\* after the previous one ended: at once, or after the cache's maxAge
Call ==
    \E p \in Paths, pause \in {0, maxAge} :
        /\ pc = "idle"
        /\ calls < MaxCalls
        /\ calls' = calls + 1
        /\ now' = now + pause
        /\ makeRequestEnter(p, 0, now')
        /\ sends' = 0
        /\ backoffs' = <<>>
        /\ lastOutcome' = "none"
        /\ callInfo' = [path |-> p,
                        fresh |-> get(Cache, p, now', NoFault).hit,
                        payload |-> get(Cache, p, now', NoFault).ret,
                        notFound |-> /\ p \in DOMAIN notFoundAt
                                     /\ now' - notFoundAt[p] < maxAge,
                        watermark |-> lastRequestTime]
        /\ UNCHANGED <<faults, cacheGhost, lastRequestTime, stamps, notFoundAt,
                       pair, batchVars>>

\* await this.rateLimit(): sleeps the remainder of the interval, then stamps
\* the watermark with the time it woke up at
RateLimit ==
    \E lag \in Lags :
        LET sleep == rateLimitSleep(lastRequestTime, now)
        IN  /\ pc = "rateLimit"
            /\ now' = IF sleep > 0 THEN now + sleep + lag ELSE now
            /\ lastRequestTime' = now'
            /\ pc' = "send"
            /\ UNCHANGED <<faults, cacheVars, cacheGhost, reqPath, retryCount,
                           result, calls, sends, stamps, backoffs, lastOutcome,
                           notFoundAt, callInfo, pair, batchVars>>

\* https.request(...); req.end(): the network request leaves
Send ==
    /\ pc = "send"
    /\ pc' = "inflight"
    /\ sends' = sends + 1
    /\ stamps' = <<stamps[2], lastRequestTime>>
    /\ UNCHANGED <<envVars, cacheVars, cacheGhost, lastRequestTime, reqPath, retryCount,
                   result, calls, backoffs, lastOutcome, notFoundAt, callInfo, pair,
                   batchVars>>

\* what every end of an attempt leaves alone
AttemptFrame ==
    UNCHANGED <<faults, cacheOp, cacheRet, lastRequestTime, reqPath, retryCount,
                calls, sends, stamps, backoffs, callInfo, pair, batchVars>>

\* mutant of rejecting: null is cached for the path
rejectingCachesNull(c, path, t) == set(c, path, Null, t, NoFault)
\* the branches of the response handler that reject or retry, and the error
\* and timeout handlers: none of them calls cache.set
rejecting(c, path, t) == c

\* status 200 with a body that parses: cached and resolved
Respond200 ==
    \E b \in Bodies :
        /\ pc = "inflight"
        /\ now' = now + NetLatency
        /\ CacheBecomes(set(Cache, reqPath, b, now', NoFault))
        /\ written' = MapSet(written, reqPath, [data |-> b, at |-> now'])
        /\ result' = Resolved(b, FALSE)
        /\ pc' = "idle"
        /\ lastOutcome' = "200"
        /\ UNCHANGED notFoundAt
        /\ AttemptFrame

\* status 200 with a body JSON.parse rejects
Respond200Malformed ==
    /\ pc = "inflight"
    /\ now' = now + NetLatency
    /\ result' = Rejected("Failed to parse JSON")
    /\ pc' = "idle"
    /\ lastOutcome' = "malformed"
    /\ CacheBecomes(rejecting(Cache, reqPath, now'))
    /\ UNCHANGED <<written, notFoundAt>>
    /\ AttemptFrame

\* status 404: null is cached and the request resolves with null
Respond404 ==
    /\ pc = "inflight"
    /\ now' = now + NetLatency
    /\ CacheBecomes(set(Cache, reqPath, Null, now', NoFault))
    /\ written' = MapSet(written, reqPath, [data |-> Null, at |-> now'])
    /\ result' = Resolved(Null, FALSE)
    /\ pc' = "idle"
    /\ lastOutcome' = "404"
    /\ notFoundAt' = MapSet(notFoundAt, reqPath, now')
    /\ AttemptFrame

\* any other status: 429 is retried while retryCount < maxRetries
RespondOther ==
    \E statusCode \in {429, 500} :
        /\ pc = "inflight"
        /\ now' = now + NetLatency
        /\ lastOutcome' = IF statusCode = 429 THEN "429" ELSE "status"
        /\ IF shouldRetry(statusCode, retryCount)
           THEN /\ pc' = "backoff"
                /\ result' = NoResult
           ELSE /\ pc' = "idle"
                /\ result' = IF statusCode = 429
                             THEN Rejected("Rate limit exceeded")
                             ELSE Rejected("HTTP status")
        /\ CacheBecomes(rejecting(Cache, reqPath, now'))
        /\ UNCHANGED <<written, notFoundAt>>
        /\ AttemptFrame

\* req.on('error')
NetworkError ==
    /\ pc = "inflight"
    /\ now' = now + NetLatency
    /\ result' = Rejected("Request failed")
    /\ pc' = "idle"
    /\ lastOutcome' = "error"
    /\ CacheBecomes(rejecting(Cache, reqPath, now'))
    /\ UNCHANGED <<written, notFoundAt>>
    /\ AttemptFrame

\* req.setTimeout(15000, ...)
Timeout ==
    /\ pc = "inflight"
    /\ now' = now + requestTimeout
    /\ result' = Rejected("Request timeout")
    /\ pc' = "idle"
    /\ lastOutcome' = "timeout"
    /\ CacheBecomes(rejecting(Cache, reqPath, now'))
    /\ UNCHANGED <<written, notFoundAt>>
    /\ AttemptFrame

\* the backoff sleep, then makeRequest(path, retryCount + 1)
Backoff ==
    /\ pc = "backoff"
    /\ now' = now + backoffTime(retryCount)
    /\ backoffs' = Append(backoffs, now' - now)
    /\ makeRequestEnter(reqPath, retryCount + 1, now')
    /\ UNCHANGED <<faults, cacheGhost, lastRequestTime, calls, sends,
                   stamps, lastOutcome, notFoundAt, callInfo, pair, batchVars>>

\* a cache directory as an earlier run left it: empty, or holding a body
\* for the path PriorPath written PriorAge before this run started
PriorAge == rateLimitDelay
PriorPath == "/p1"
PriorEntry(p) == [data |-> "b1", timestamp |-> StartTime - PriorAge, requestPath |-> p]
PriorIndex(p) ==
    MapSet(EmptyMap, generateCacheKey(p),
           [timestamp |-> StartTime - PriorAge, requestPath |-> p])

Init ==
    /\ now = StartTime
    /\ faults = NoFaults
    /\ memoryCache = EmptyMap
    /\ \/ /\ cacheIndex = EmptyMap
          /\ files = EmptyMap
          /\ indexFile = [state |-> "missing", index |-> EmptyMap]
       \/ /\ cacheIndex = PriorIndex(PriorPath)
          /\ files = MapSet(EmptyMap, generateCacheKey(PriorPath),
                            Stringify(PriorEntry(PriorPath)))
          /\ indexFile = [state |-> "ok", index |-> PriorIndex(PriorPath)]
    /\ written = EmptyMap
    /\ cacheOp = [op |-> "new", path |-> "", found |-> "none"]
    /\ cacheRet = [ret |-> Null, hit |-> FALSE]
    /\ ClientAtRest
    /\ BatchAtRest

Next ==
    \/ Call
    \/ RateLimit
    \/ Send
    \/ Respond200
    \/ Respond200Malformed
    \/ Respond404
    \/ RespondOther
    \/ NetworkError
    \/ Timeout
    \/ Backoff

Spec == Init /\ [][Next]_vars

\* Every attempt ends (in a response, a connection error or the 15 s
\* timeout) and every timer fires.
AttemptEnds ==
    Respond200 \/ Respond200Malformed \/ Respond404 \/ RespondOther
        \/ NetworkError \/ Timeout
FairSpec ==
    Spec /\ WF_vars(RateLimit) /\ WF_vars(Send) /\ WF_vars(Backoff) /\ WF_vars(AttemptEnds)

\* ------------------------------------------------------------------------
\* Specification SpecPair: makeRequest calls of two callers on one client,
\* started without awaiting each other.  A call runs without interruption
\* from one await to the next: up to the sleep of rateLimit, or, when
\* rateLimit does not sleep, up to the response; timers and responses are
\* handled in the order they are due.
\* ------------------------------------------------------------------------
\* how many times makeRequest is entered in one run, retries included
MaxPairCalls == 3
\* time between the end of a caller's request and its next one
Pauses == {0, 400, rateLimitDelay}
Max(a, b) == IF a > b THEN a ELSE b

\* no timer or response of another caller is due before time t
NothingDueBefore(i, t) ==
    \A j \in Procs \ {i} : pair.at[j] # "idle" => pair.due[j] >= t

\* this.lastRequestTime = Date.now() at time t, and the request that follows
\* in the same turn of the event loop: {at, read, beside}, when it was
\* issued, the watermark its rateLimit had read, and whether a call of the
\* other caller was running when this one was entered
Issue(pr, i, t) ==
    [pr EXCEPT !.at[i] = "inflight",
               !.due[i] = t + NetLatency,
               !.issued = Append(@, [at |-> t, read |-> pr.read[i],
                                     beside |-> pr.beside[i]])]

\* mutant of pairEnter: the watermark is not consulted
pairEnterUnlimited(i, path, k, t) ==
    LET r == get(Cache, path, t, NoFault)
        entered == [pair EXCEPT !.path[i] = path, !.retry[i] = k,
                                !.read[i] = lastRequestTime,
                                !.beside[i] = \E j \in Procs \ {i} : pair.at[j] # "idle",
                                !.entries = @ + 1]
    IN  /\ CacheBecomes(r.c)
        /\ IF r.ret # Null
           THEN /\ pair' = [entered EXCEPT !.at[i] = "idle", !.due[i] = Never]
                /\ UNCHANGED lastRequestTime
           ELSE /\ pair' = Issue(entered, i, t)
                /\ lastRequestTime' = t
\* makeRequest(path, k) of caller i entered at time t: the cache, then
\* rateLimit up to its sleep or, without a sleep, to the request
pairEnter(i, path, k, t) ==
    LET r == get(Cache, path, t, NoFault)
        sleep == rateLimitSleep(lastRequestTime, t)
        entered == [pair EXCEPT !.path[i] = path, !.retry[i] = k,
                                !.read[i] = lastRequestTime,
                                !.beside[i] = \E j \in Procs \ {i} : pair.at[j] # "idle",
                                !.entries = @ + 1]
    IN  /\ CacheBecomes(r.c)
        /\ IF r.ret # Null
           THEN /\ pair' = [entered EXCEPT !.at[i] = "idle", !.due[i] = Never]
                /\ UNCHANGED lastRequestTime
           ELSE IF sleep > 0
           THEN /\ pair' = [entered EXCEPT !.at[i] = "limiter", !.due[i] = t + sleep]
                /\ UNCHANGED lastRequestTime
           ELSE /\ pair' = Issue(entered, i, t)
                /\ lastRequestTime' = t

\* what the calls running side by side leave alone
PairFrame ==
    UNCHANGED <<faults, cacheGhost, pc, reqPath, retryCount, result, calls, sends,
                stamps, backoffs, lastOutcome, notFoundAt, callInfo, batchVars>>

\* a caller starts a makeRequest
PairCall(i) ==
    \E p \in Paths, pause \in Pauses :
        /\ pair.at[i] = "idle"
        /\ pair.entries < MaxPairCalls
        /\ NothingDueBefore(i, now + pause)
        /\ now' = now + pause
        /\ pairEnter(i, p, 0, now')
        /\ PairFrame

\* the sleep of rateLimit ends: the watermark is stamped and the request leaves
PairWake(i) ==
    \E lag \in Lags :
        /\ pair.at[i] = "limiter"
        /\ NothingDueBefore(i, pair.due[i])
        /\ now' = Max(now, pair.due[i]) + lag
        /\ lastRequestTime' = now'
        /\ pair' = Issue(pair, i, now')
        /\ UNCHANGED cacheVars
        /\ PairFrame

\* the request ends: 200 and 404 are cached, 429 is retried after a backoff
\* while retryCount < maxRetries, everything else rejects
PairRespond(i) ==
    \E o \in {"200", "404", "429", "failed"} :
        /\ pair.at[i] = "inflight"
        /\ NothingDueBefore(i, pair.due[i])
        /\ now' = Max(now, pair.due[i])
        /\ IF o = "200"
           THEN CacheBecomes(set(Cache, pair.path[i], "b1", now', NoFault))
           ELSE IF o = "404"
           THEN CacheBecomes(set(Cache, pair.path[i], Null, now', NoFault))
           ELSE UNCHANGED cacheVars
        /\ IF o = "429" /\ shouldRetry(429, pair.retry[i])
           THEN pair' = [pair EXCEPT !.at[i] = "backoff",
                                     !.due[i] = now' + backoffTime(pair.retry[i])]
           ELSE pair' = [pair EXCEPT !.at[i] = "idle", !.due[i] = Never]
        /\ UNCHANGED lastRequestTime
        /\ PairFrame

\* the backoff sleep ends: makeRequest(path, retryCount + 1)
PairBackoff(i) ==
    /\ pair.at[i] = "backoff"
    /\ pair.entries < MaxPairCalls
    /\ NothingDueBefore(i, pair.due[i])
    /\ now' = Max(now, pair.due[i])
    /\ pairEnter(i, pair.path[i], pair.retry[i] + 1, now')
    /\ PairFrame

InitPair ==
    /\ now = StartTime
    /\ faults = NoFaults
    /\ memoryCache = EmptyMap
    /\ cacheIndex = EmptyMap
    /\ files = EmptyMap
    /\ indexFile = [state |-> "missing", index |-> EmptyMap]
    /\ written = EmptyMap
    /\ cacheOp = [op |-> "new", path |-> "", found |-> "none"]
    /\ cacheRet = [ret |-> Null, hit |-> FALSE]
    /\ ClientAtRest
    /\ BatchAtRest

NextPair ==
    \/ \E i \in Procs : PairCall(i)
    \/ \E i \in Procs : PairWake(i)
    \/ \E i \in Procs : PairRespond(i)
    \/ \E i \in Procs : PairBackoff(i)

SpecPair == InitPair /\ [][NextPair]_vars

\* ------------------------------------------------------------------------
\* lib/gap-analyzer.js findGaps / getReferencesForCitations and
\* SemanticScholarAPI.findPaper and its lookups
\* ------------------------------------------------------------------------
\* length of the candidate list (after limitPapers)
NumRecords == 7
\* errorCount > 5 && successCount === 0 ends the loop
ErrorThreshold == 5

\* A makeRequest of a lookup is taken as a whole here: it resolves with the
\* parsed body (from the network or from the cache), resolves with null
\* (404), or rejects (status, connection error, timeout, unparsable body,
\* retries exhausted).  The bodies of a paper-detail request, by what the
\* batch reads of them:
\*   "refs"        references is an array of reference objects
\*   "restricted"  referenceCount > 0 and no references
\*   "norefs"      no references and no referenceCount
\*   "badrefs"     references is truthy but no array of objects
\*                 (not iterable, or holding null)
PaperBodies == {"refs", "restricted", "norefs", "badrefs"}
DetailOutcomes == PaperBodies \cup {"null", "rejected"}
\* the bodies of a search request: data is a non-empty array, an empty
\* array, or missing
SearchOutcomes == {"hits", "nohits", "nodata", "null", "rejected"}
\* getCrossRefReferences: a non-empty list, [] (also for a non-200 status),
\* or a rejection (connection error, timeout, unparsable body)
CrossRefOutcomes == {"list", "empty", "status", "unparsable", "error", "timeout"}

IdSets == [doi : BOOLEAN, arxiv : BOOLEAN, title : BOOLEAN]

\* mutant of StrategyAfterDoi: the arXiv lookup is passed over
StrategyAfterDoiSkippingArxiv(i) ==
    IF i.title THEN "search" ELSE "classify"
\* findPaper: the strategy tried after the DOI lookup, after the arXiv lookup
StrategyAfterDoi(i) ==
    IF i.arxiv THEN "arxiv" ELSE IF i.title THEN "search" ELSE "classify"
StrategyAfterArxiv(i) ==
    IF i.title THEN "search" ELSE "classify"
\* mutant of FirstStrategy: a record with a title is searched by title first
FirstStrategyTitleFirst(i) ==
    IF i.title THEN "search" ELSE IF i.doi THEN "doi" ELSE StrategyAfterDoi(i)
FirstStrategy(i) ==
    IF i.doi THEN "doi" ELSE StrategyAfterDoi(i)

\* findPaper issued the request of a strategy, which returned a paper or not
Tried(strategy, ok) == Append(tried, [strategy |-> strategy, ok |-> ok])

\* mutant of lookupSettled: the loop goes on while findPaper is pending
lookupNotAwaited(p) == p \in {"loop", "doi", "crossref", "arxiv", "search", "byId"}
\* `await this.semanticScholar.findPaper(citation)`: the loop takes up the
\* next record when the lookup of the one before has settled
lookupSettled(p) == p = "loop"

\* the record that just finished: did its lookup fail
LookupFailed(thrown) == thrown \/ (paper = "none" /\ rejected)

\* the rest of the program does not move while findGaps runs
BatchFrame == UNCHANGED <<envVars, cacheVars, cacheGhost, clientVars, inputs, gapVars>>

\* BibParser.parse(): TRUE when the .bib file is read, FALSE when it throws
\* its read error
bibParse(i) == i.bib
\* TexParser.parse(): TRUE when the .tex file is read, FALSE when it throws
\* `Error reading .tex file`
texParse(i) == i.tex

\* findGaps starts: getUsedCitationsList() parses the .bib and the .tex file;
\* a read error is thrown out of findGaps
ReadInputs ==
    /\ bpc = "rest"
    /\ IF bibParse(inputs) /\ texParse(inputs)
       THEN /\ bpc' = "loop"
            /\ finished' = "running"
       ELSE /\ bpc' = "end"
            /\ finished' = "raised"
    /\ UNCHANGED <<idx, ids, paper, referencesMap, successCount, errorCount, rejected,
                   failedLookups, consecFailed, fallback, tried, inFlight>>
    /\ BatchFrame

\* for (const [index, citation] of citations.entries()): the next record,
\* with whatever identifiers it has, or the end of the list
NextRecord ==
    /\ lookupSettled(bpc)
    /\ IF idx < NumRecords
       THEN \E i \in IdSets :
                /\ idx' = idx + 1
                /\ ids' = i
                /\ bpc' = FirstStrategy(i)
                /\ inFlight' = inFlight \cup {idx + 1}
       ELSE /\ bpc' = "analyze"
            /\ UNCHANGED <<idx, ids, inFlight>>
    /\ paper' = "none"
    /\ rejected' = FALSE
    /\ fallback' = NoFallback
    /\ tried' = <<>>
    /\ UNCHANGED <<referencesMap, successCount, errorCount, finished, failedLookups,
                   consecFailed>>
    /\ BatchFrame

LookupFrame ==
    /\ UNCHANGED <<idx, ids, referencesMap, successCount, errorCount, finished,
                   failedLookups, consecFailed, inFlight>>
    /\ BatchFrame

\* a lookup resolved the record with this body
ResolvedBy(strategy, body) == [fallback EXCEPT !.via = strategy, !.primary = body]

\* mutant of needsFallback: the reference count is not looked at
needsFallbackWithoutCount(body) == body \in {"restricted", "norefs"}
\* paper.referenceCount > 0 && !paper.references
needsFallback(body) == body = "restricted"

\* getPaperByDOI: a rejection is caught and null returned
DoiLookup ==
    \E o \in DetailOutcomes :
        /\ bpc = "doi"
        /\ tried' = Tried("doi", o \in PaperBodies)
        /\ IF o \in PaperBodies
           THEN /\ paper' = o
                /\ bpc' = IF needsFallback(o) THEN "crossref" ELSE "classify"
                /\ fallback' = ResolvedBy("doi", o)
                /\ UNCHANGED rejected
           ELSE /\ paper' = "none"
                /\ bpc' = StrategyAfterDoi(ids)
                /\ rejected' = (rejected \/ o = "rejected")
                /\ UNCHANGED fallback
        /\ LookupFrame

\* getCrossRefReferences(doi): resolves with the normalized list, resolves
\* with [] (no reference in the work, or a status other than 200), or
\* rejects (unparsable body, connection error, timeout)
getCrossRefReferences(o) ==
    CASE o = "list" -> "list"
      [] o \in {"empty", "status"} -> "empty"
      [] OTHER -> "rejected"
\* mutant of afterFallback: a rejection of the CrossRef lookup is thrown on
afterFallbackRethrows(answer) == IF answer = "rejected" THEN "thrown" ELSE "classify"
\* try { ... } catch (crossrefError) { /* Silent fail and continue */ }
afterFallback(answer) == "classify"

\* the CrossRef fallback inside getPaperByDOI, keyed by the DOI of the lookup
CrossRefLookup ==
    \E o \in CrossRefOutcomes :
        /\ bpc = "crossref"
        /\ paper' = IF getCrossRefReferences(o) = "list" THEN "refs" ELSE paper
        /\ bpc' = afterFallback(getCrossRefReferences(o))
        /\ fallback' = [fallback EXCEPT !.lookups = @ + 1, !.outcome = o]
        /\ UNCHANGED <<rejected, tried>>
        /\ LookupFrame

\* the arXiv lookup of findPaper
ArxivLookup ==
    \E o \in DetailOutcomes :
        /\ bpc = "arxiv"
        /\ tried' = Tried("arxiv", o \in PaperBodies)
        /\ IF o \in PaperBodies
           THEN /\ paper' = o
                /\ bpc' = "classify"
                /\ fallback' = ResolvedBy("arxiv", o)
                /\ UNCHANGED rejected
           ELSE /\ paper' = "none"
                /\ bpc' = StrategyAfterArxiv(ids)
                /\ rejected' = (rejected \/ o = "rejected")
                /\ UNCHANGED fallback
        /\ LookupFrame

\* the title search of findPaper: searchPaper(title, 1), then
\* searchResults.length, which throws when the body has no data array; the
\* request for the top match's details (ByIdLookup) belongs to the strategy
SearchLookup ==
    \E o \in SearchOutcomes :
        /\ bpc = "search"
        /\ bpc' = CASE o = "hits" -> "byId"
                    [] o = "nodata" -> "thrown"
                    [] OTHER -> "classify"
        /\ rejected' = (rejected \/ o = "rejected")
        /\ tried' = Tried("search", FALSE)
        /\ UNCHANGED <<paper, fallback>>
        /\ LookupFrame

\* getPaperById: { ...result.data, fromCache } also when data is null
ByIdLookup ==
    \E o \in DetailOutcomes :
        /\ bpc = "byId"
        /\ paper' = CASE o \in PaperBodies -> o
                      [] o = "null" -> "norefs"
                      [] OTHER -> "none"
        /\ fallback' = IF o \in PaperBodies THEN ResolvedBy("byId", o) ELSE fallback
        /\ tried' = [tried EXCEPT ![Len(tried)].ok = (o # "rejected")]
        /\ rejected' = (rejected \/ o = "rejected")
        /\ bpc' = "classify"
        /\ LookupFrame

\* findPaper returned: the three branches of the loop body
Classify ==
    /\ bpc = "classify"
    /\ IF paper \in {"refs", "badrefs"}
       THEN /\ referencesMap' = MapSet(referencesMap, idx, paper)
            /\ successCount' = successCount + 1
       ELSE UNCHANGED <<referencesMap, successCount>>
    /\ failedLookups' = IF LookupFailed(FALSE) THEN failedLookups + 1 ELSE failedLookups
    /\ consecFailed' = IF LookupFailed(FALSE) THEN consecFailed + 1 ELSE 0
    /\ bpc' = "loop"
    /\ fallback' = NoFallback
    /\ tried' = <<>>
    /\ inFlight' = inFlight \ {idx}
    /\ UNCHANGED <<idx, ids, paper, errorCount, finished, rejected>>
    /\ BatchFrame

\* findPaper threw: the catch block, with its early end of the loop
tooManyErrors(errors, successes) == errors > ErrorThreshold /\ successes = 0
Catch ==
    /\ bpc = "thrown"
    /\ errorCount' = errorCount + 1
    /\ failedLookups' = failedLookups + 1
    /\ consecFailed' = consecFailed + 1
    /\ bpc' = IF tooManyErrors(errorCount', successCount) THEN "analyze" ELSE "loop"
    /\ fallback' = NoFallback
    /\ tried' = <<>>
    /\ inFlight' = inFlight \ {idx}
    /\ UNCHANGED <<idx, ids, paper, referencesMap, successCount, finished, rejected>>
    /\ BatchFrame

\* analyzeGaps(referencesMap): `for (const ref of data.references)` and
\* `ref.title` throw on a reference list that is no array of objects;
\* otherwise findGaps returns its result
analyzeGapsThrows(refsMap) == \E k \in DOMAIN refsMap : refsMap[k] = "badrefs"
Analyze ==
    /\ bpc = "analyze"
    /\ bpc' = "end"
    /\ finished' = IF analyzeGapsThrows(referencesMap) THEN "raised" ELSE "returned"
    /\ UNCHANGED <<idx, ids, paper, referencesMap, successCount, errorCount, rejected,
                   failedLookups, consecFailed, fallback, tried, inFlight>>
    /\ BatchFrame

InitBatch ==
    /\ now = StartTime
    /\ faults = NoFaults
    /\ memoryCache = EmptyMap
    /\ cacheIndex = EmptyMap
    /\ files = EmptyMap
    /\ indexFile = [state |-> "missing", index |-> EmptyMap]
    /\ written = EmptyMap
    /\ cacheOp = [op |-> "new", path |-> "", found |-> "none"]
    /\ cacheRet = [ret |-> Null, hit |-> FALSE]
    /\ ClientAtRest
    /\ inputs \in [bib : BOOLEAN, tex : BOOLEAN]
    /\ bpc = "rest"
    /\ idx = 0
    /\ ids = [doi |-> FALSE, arxiv |-> FALSE, title |-> FALSE]
    /\ paper = "none"
    /\ referencesMap = EmptyMap
    /\ successCount = 0
    /\ errorCount = 0
    /\ finished = "running"
    /\ rejected = FALSE
    /\ failedLookups = 0
    /\ consecFailed = 0
    /\ fallback = NoFallback
    /\ tried = <<>>
    /\ inFlight = {}
    /\ GapsAtRest

NextBatch ==
    \/ ReadInputs
    \/ NextRecord
    \/ DoiLookup
    \/ CrossRefLookup
    \/ ArxivLookup
    \/ SearchLookup
    \/ ByIdLookup
    \/ Classify
    \/ Catch
    \/ Analyze

SpecBatch == InitBatch /\ [][NextBatch]_vars

\* ------------------------------------------------------------------------
\* lib/gap-analyzer.js analyzeGaps and the matching against the bibliography
\* ------------------------------------------------------------------------
\* A string is the sequence of its characters; NoText is a field that is
\* absent, null or '' (all falsy).  A year is a number, NoYear when absent.
NoText == <<>>
NoYear == 0
\* longest reference list a provider returns for one paper
MaxRefs == 2

Range(f) == {f[i] : i \in DOMAIN f}

\* String.prototype.toLowerCase over the letters the model uses
toLowerChar(ch) ==
    CASE ch = "X" -> "x"
      [] ch = "Y" -> "y"
      [] ch = "W" -> "w"
      [] ch = "D" -> "d"
      [] OTHER -> ch
toLowerCase(str) == [i \in 1..Len(str) |-> toLowerChar(str[i])]

\* the regular expressions of normalizeTitle: \w and \s
isWordChar(ch) == ch \in {"x", "y", "w", "d", "X", "Y", "W", "D", "1", "2", "_"}
isSpace(ch) == ch = " "
\* .replace(/[^\w\s]/g, ' ')
replacePunctuation(str) ==
    [i \in 1..Len(str) |-> IF isWordChar(str[i]) \/ isSpace(str[i]) THEN str[i] ELSE " "]
\* .replace(/\s+/g, ' ')
RECURSIVE collapseSpaces(_)
collapseSpaces(str) ==
    IF Len(str) < 2 THEN str
    ELSE IF isSpace(str[1]) /\ isSpace(str[2]) THEN collapseSpaces(Tail(str))
    ELSE <<str[1]>> \o collapseSpaces(Tail(str))
\* .trim()
RECURSIVE trimStart(_)
trimStart(str) ==
    IF str # <<>> /\ isSpace(str[1]) THEN trimStart(Tail(str)) ELSE str
RECURSIVE trimEnd(_)
trimEnd(str) ==
    IF str # <<>> /\ isSpace(str[Len(str)])
    THEN trimEnd(SubSeq(str, 1, Len(str) - 1)) ELSE str
trim(str) == trimEnd(trimStart(str))

\* mutant of normalizeTitle: case is kept
normalizeTitleKeepingCase(title) ==
    IF title = NoText THEN NoText
    ELSE trim(collapseSpaces(replacePunctuation(title)))
normalizeTitle(title) ==
    IF title = NoText THEN NoText
    ELSE trim(collapseSpaces(replacePunctuation(toLowerCase(title))))

\* the .bib file: its records in file order.  Each record carries its
\* citation key.  urlDoi is what /doi\.org\/(10\..+)/ matches in the url
\* field, NoText when the record has no such url.
Library ==
    << [key |-> "A", title |-> <<"X">>, year |-> 2020, doi |-> NoText,
        urlDoi |-> <<"d", "2">>, isbn |-> NoText],
       [key |-> "B", title |-> <<"Y">>, year |-> 2021, doi |-> <<"d", "1">>,
        urlDoi |-> NoText, isbn |-> NoText] >>
LibraryKeys == {Library[i].key : i \in DOMAIN Library}
bibEntry(key) == CHOOSE e \in Range(Library) : e.key = key

\* the references a provider can list.  A reference of the primary provider
\* carries its DOI in externalIds.DOI only.
Ref(title, year, extDOI) ==
    [title |-> title, year |-> year, doi |-> NoText, externalIds |-> extDOI]
\* the same reference as getCrossRefReferences delivers it: the DOI in the
\* doi field and in externalIds.DOI
crossRefReference(ref) == [ref EXCEPT !.doi = ref.externalIds]
\* the title of record A up to case and punctuation, in A's year and in another
RefSameTitleSameYear == Ref(<<"x", "!">>, 2020, NoText)
RefSameTitleOtherYear == Ref(<<"x", "!">>, 2021, NoText)
\* the DOI of record B up to case, under another title and year
RefSameDoi == Ref(<<"W">>, 2020, <<"D", "1">>)
\* in no record
RefOther == Ref(<<"W">>, 2020, NoText)
\* without a title
RefNoTitle == Ref(NoText, 2020, <<"d", "2">>)
Refs == {RefSameTitleSameYear, RefSameTitleOtherYear, RefSameDoi, RefOther, RefNoTitle}

RECURSIVE SeqsUpTo(_, _)
SeqsUpTo(S, n) ==
    IF n = 0 THEN {<<>>}
    ELSE LET shorter == SeqsUpTo(S, n - 1)
         IN shorter \cup {Append(q, x) : q \in {t \in shorter : Len(t) = n - 1}, x \in S}
RefLists == SeqsUpTo(Refs, MaxRefs)

\* the document: the keys it cites, each once, all of them in the .bib file
Documents == {d \in SeqsUpTo(LibraryKeys, Cardinality(LibraryKeys)) :
                 \A i, j \in DOMAIN d : i # j => d[i] # d[j]}

\* lib/citation-analyzer.js.  bibEntries is the Map BibParser.parse()
\* returns, as the sequence of its records in file order, each with its key;
\* usedCitations is the Set of the keys cited in the document, in document
\* order.
\* .replace(/\{([^{}]*)\}/g, '$1'): a pair of braces with no brace between
\* them is dropped
isBrace(ch) == ch \in {"{", "}"}
RECURSIVE removeBraces(_)
removeBraces(str) ==
    IF str = <<>> THEN <<>>
    ELSE LET later == {j \in 2..Len(str) : isBrace(str[j])}
             next == CHOOSE j \in later : \A k \in later : j <= k
         IN IF str[1] = "{" /\ later # {} /\ str[next] = "}"
            THEN SubSeq(str, 2, next - 1) \o removeBraces(SubSeq(str, next + 1, Len(str)))
            ELSE <<str[1]>> \o removeBraces(Tail(str))
cleanBibTexFormatting(text) ==
    IF text = NoText THEN text ELSE trim(removeBraces(removeBraces(text)))
\* the record getUsedCitationsList pushes for a key the .bib file lacks;
\* its title stands for '[NOT FOUND IN .BIB FILE]'
NotFoundTitle == <<"[", "W", " ", "D", ".", "Y", "]">>
missingEntry(key) ==
    [key |-> key, title |-> NotFoundTitle, year |-> NoYear, doi |-> NoText,
     urlDoi |-> NoText, isbn |-> NoText]
hasKey(bibEntries, key) == \E i \in DOMAIN bibEntries : bibEntries[i].key = key
entryOf(bibEntries, key) ==
    bibEntries[CHOOSE i \in DOMAIN bibEntries : bibEntries[i].key = key]
cleaned(entry) == [entry EXCEPT !.title = cleanBibTexFormatting(entry.title)]
\* getUsedCitationsList()
usedCitationsList(bibEntries, usedCitations) ==
    [i \in DOMAIN usedCitations |->
        IF hasKey(bibEntries, usedCitations[i])
        THEN cleaned(entryOf(bibEntries, usedCitations[i]))
        ELSE missingEntry(usedCitations[i])]
\* getUnusedCitations()
unusedCitations(bibEntries, usedCitations) ==
    LET unused == SelectSeq(bibEntries, LAMBDA entry : entry.key \notin Range(usedCitations))
    IN [i \in DOMAIN unused |-> cleaned(unused[i])]
\* getStats()
getStats(bibEntries, usedCitations) ==
    [totalInBib |-> Len(bibEntries),
     totalUsed |-> Len(usedCitations),
     totalUnused |-> Len(bibEntries) - Len(usedCitations),
     missingFromBib |->
         Len(SelectSeq(usedCitations, LAMBDA key : ~hasKey(bibEntries, key)))]

\* CitationAnalyzer.getUsedCitationsList / getAllBibEntriesArray over the
\* .bib file above
getUsedCitationsList(doc) == usedCitationsList(Library, doc)
getAllBibEntriesArray == Library

\* extractIdentifiers, as far as the index reads it: a DOI found in the url
\* replaces the doi field
\* .replace(/[\s-]/g, '')
cleanIsbn(isbn) == SelectSeq(isbn, LAMBDA ch : ~isSpace(ch) /\ ch # "-")
extractIdentifiers(entry) ==
    [title |-> entry.title, normalizedTitle |-> normalizeTitle(entry.title),
     doi |-> IF entry.urlDoi # NoText THEN entry.urlDoi ELSE entry.doi,
     isbn |-> cleanIsbn(entry.isbn),
     year |-> entry.year]

\* buildExistingPapersIndex(): the key sets of its Maps
TitleYear(normalizedTitle, year) == <<normalizedTitle, year>>
indexOf(citations) ==
    LET idents == {extractIdentifiers(c) : c \in Range(citations)}
    IN [byDOI |-> {toLowerCase(i.doi) : i \in {x \in idents : x.doi # NoText}},
        byNormalizedTitle |->
            {i.normalizedTitle : i \in {x \in idents : x.normalizedTitle # NoText}},
        byTitleAndYear |->
            {TitleYear(i.normalizedTitle, i.year) :
                i \in {x \in idents : x.normalizedTitle # NoText /\ x.year # NoYear}}]
\* buildExistingPapersIndex(): its four Maps, filled by Map.set in the order
\* of the used citations
indexCitation(index, citation) ==
    LET identifiers == extractIdentifiers(citation)
        withDoi == IF identifiers.doi # NoText
                   THEN [index EXCEPT !.byDOI =
                            MapSet(@, toLowerCase(identifiers.doi), citation)]
                   ELSE index
        withIsbn == IF identifiers.isbn # NoText
                    THEN [withDoi EXCEPT !.byISBN = MapSet(@, identifiers.isbn, citation)]
                    ELSE withDoi
        withTitle == IF identifiers.normalizedTitle # NoText
                     THEN [withIsbn EXCEPT !.byNormalizedTitle =
                              MapSet(@, identifiers.normalizedTitle, citation)]
                     ELSE withIsbn
    IN IF identifiers.normalizedTitle # NoText /\ identifiers.year # NoYear
       THEN [withTitle EXCEPT !.byTitleAndYear =
                MapSet(@, TitleYear(identifiers.normalizedTitle, identifiers.year),
                       citation)]
       ELSE withTitle
RECURSIVE indexCitations(_, _)
indexCitations(index, citations) ==
    IF citations = <<>> THEN index
    ELSE indexCitations(indexCitation(index, Head(citations)), Tail(citations))
existingPapersMaps(usedCitationsArray) == indexCitations(NoMaps, usedCitationsArray)

\* mutant of buildExistingPapersIndex: built from every record of the .bib file
buildExistingPapersIndexOfAll(doc) == indexOf(getAllBibEntriesArray)
buildExistingPapersIndex(doc) == indexOf(getUsedCitationsList(doc))

extractDOIFromSemanticScholar(p) == p.externalIds

\* mutant of isPaperInBibliography: the DOI test left out
isPaperInBibliographyNoDoi(ref, existing) ==
    \/ /\ ref.title # NoText /\ ref.year # NoYear
       /\ TitleYear(normalizeTitle(ref.title), ref.year) \in existing.byTitleAndYear
    \/ /\ ref.title # NoText
       /\ normalizeTitle(ref.title) \in existing.byNormalizedTitle
\* mutant of isPaperInBibliography: the title-alone test left out
isPaperInBibliographyNoTitleAlone(ref, existing) ==
    \/ /\ extractDOIFromSemanticScholar(ref) # NoText
       /\ toLowerCase(extractDOIFromSemanticScholar(ref)) \in existing.byDOI
    \/ /\ ref.title # NoText /\ ref.year # NoYear
       /\ TitleYear(normalizeTitle(ref.title), ref.year) \in existing.byTitleAndYear
isPaperInBibliography(ref, existing) ==
    \/ /\ extractDOIFromSemanticScholar(ref) # NoText
       /\ toLowerCase(extractDOIFromSemanticScholar(ref)) \in existing.byDOI
    \/ /\ ref.title # NoText /\ ref.year # NoYear
       /\ TitleYear(normalizeTitle(ref.title), ref.year) \in existing.byTitleAndYear
    \/ /\ ref.title # NoText
       /\ normalizeTitle(ref.title) \in existing.byNormalizedTitle

\* mutant of createReferenceKey: the DOI keeps its case
createReferenceKeyKeepingCase(ref, salt) ==
    LET doi == IF ref.doi # NoText THEN ref.doi ELSE extractDOIFromSemanticScholar(ref)
    IN IF doi # NoText
       THEN [kind |-> "doi", text |-> doi, year |-> NoYear]
       ELSE IF ref.title # NoText /\ ref.year # NoYear
       THEN [kind |-> "title_year", text |-> normalizeTitle(ref.title), year |-> ref.year]
       ELSE IF ref.title # NoText
       THEN [kind |-> "title", text |-> normalizeTitle(ref.title), year |-> NoYear]
       ELSE [kind |-> "unknown", text |-> NoText, year |-> salt]
\* createReferenceKey: `doi:`, `title_year:`, `title:`, else `unknown:` with
\* a random number (salt)
createReferenceKey(ref, salt) ==
    LET doi == IF ref.doi # NoText THEN ref.doi ELSE extractDOIFromSemanticScholar(ref)
    IN IF doi # NoText
       THEN [kind |-> "doi", text |-> toLowerCase(doi), year |-> NoYear]
       ELSE IF ref.title # NoText /\ ref.year # NoYear
       THEN [kind |-> "title_year", text |-> normalizeTitle(ref.title), year |-> ref.year]
       ELSE IF ref.title # NoText
       THEN [kind |-> "title", text |-> normalizeTitle(ref.title), year |-> NoYear]
       ELSE [kind |-> "unknown", text |-> NoText, year |-> salt]

\* the body of analyzeGaps's inner loop: one reference of one source.
\* referenceFrequency is a Map; its entries in insertion order.
\* mutant of PositionOf: only the entry inserted last is compared
PositionOfLastOnly(frequency, refKey) ==
    IF frequency # <<>> /\ frequency[Len(frequency)].key = refKey
    THEN Len(frequency)
    ELSE 0
PositionOf(frequency, refKey) ==
    IF \E i \in DOMAIN frequency : frequency[i].key = refKey
    THEN CHOOSE i \in DOMAIN frequency : frequency[i].key = refKey
    ELSE 0
\* mutants of countReference: the record takes the payload of the latest
\* occurrence; the citing key is pushed without the includes test
countReferenceKeepingLatest(frequency, citationKey, ref, existing) ==
    IF ref.title = NoText THEN frequency
    ELSE IF isPaperInBibliography(ref, existing) THEN frequency
    ELSE LET refKey == createReferenceKey(ref, Len(frequency))
             found == PositionOf(frequency, refKey)
             freq1 == IF found = 0
                      THEN Append(frequency, [key |-> refKey, count |-> 0,
                                              reference |-> ref, citedBy |-> <<>>])
                      ELSE frequency
             at == IF found = 0 THEN Len(freq1) ELSE found
             refData == freq1[at]
         IN [freq1 EXCEPT ![at] =
                [refData EXCEPT
                    !.count = refData.count + 1,
                    !.reference = ref,
                    !.citedBy = IF citationKey \in Range(refData.citedBy)
                                THEN refData.citedBy
                                ELSE Append(refData.citedBy, citationKey)]]
countReferencePushingAlways(frequency, citationKey, ref, existing) ==
    IF ref.title = NoText THEN frequency
    ELSE IF isPaperInBibliography(ref, existing) THEN frequency
    ELSE LET refKey == createReferenceKey(ref, Len(frequency))
             found == PositionOf(frequency, refKey)
             freq1 == IF found = 0
                      THEN Append(frequency, [key |-> refKey, count |-> 0,
                                              reference |-> ref, citedBy |-> <<>>])
                      ELSE frequency
             at == IF found = 0 THEN Len(freq1) ELSE found
             refData == freq1[at]
         IN [freq1 EXCEPT ![at] =
                [refData EXCEPT
                    !.count = refData.count + 1,
                    !.citedBy = Append(refData.citedBy, citationKey)]]
countReference(frequency, citationKey, ref, existing) ==
    IF ref.title = NoText THEN frequency
    ELSE IF isPaperInBibliography(ref, existing) THEN frequency
    ELSE LET refKey == createReferenceKey(ref, Len(frequency))
             found == PositionOf(frequency, refKey)
             freq1 == IF found = 0
                      THEN Append(frequency, [key |-> refKey, count |-> 0,
                                              reference |-> ref, citedBy |-> <<>>])
                      ELSE frequency
             at == IF found = 0 THEN Len(freq1) ELSE found
             refData == freq1[at]
         IN [freq1 EXCEPT ![at] =
                [refData EXCEPT
                    !.count = refData.count + 1,
                    !.citedBy = IF citationKey \in Range(refData.citedBy)
                                THEN refData.citedBy
                                ELSE Append(refData.citedBy, citationKey)]]

\* for (const ref of data.references)
RECURSIVE countReferences(_, _, _, _)
countReferences(frequency, citationKey, references, existing) ==
    IF references = <<>> THEN frequency
    ELSE countReferences(countReference(frequency, citationKey, Head(references), existing),
                         citationKey, Tail(references), existing)

\* for (const [citationKey, data] of referencesMap)
RECURSIVE countSources(_, _, _)
countSources(frequency, refsMap, existing) ==
    IF refsMap = <<>> THEN frequency
    ELSE countSources(countReferences(frequency, Head(refsMap).key,
                                      Head(refsMap).references, existing),
                      Tail(refsMap), existing)

\* mutant of qualifies: a strict comparison
qualifiesStrictly(data, minCitations) == data.count > minCitations
\* if (data.count >= minCitations) gaps.push(data)
qualifies(data, minCitations) == data.count >= minCitations
filterByCount(frequency, minCitations) ==
    SelectSeq(frequency, LAMBDA data : qualifies(data, minCitations))

\* mutant of sortsBefore: ascending
sortsBeforeAscending(a, b) == a.count - b.count <= 0
\* gaps.sort((a, b) => b.count - a.count), a stable sort: a stays before b
\* unless the comparator is positive
sortsBefore(a, b) == b.count - a.count <= 0
RECURSIVE insertSorted(_, _)
insertSorted(sorted, data) ==
    IF sorted = <<>> THEN <<data>>
    ELSE IF sortsBefore(sorted[Len(sorted)], data) THEN Append(sorted, data)
    ELSE Append(insertSorted(SubSeq(sorted, 1, Len(sorted) - 1), data),
                sorted[Len(sorted)])
RECURSIVE sort(_)
sort(gaps) ==
    IF gaps = <<>> THEN <<>>
    ELSE insertSorted(sort(SubSeq(gaps, 1, Len(gaps) - 1)), gaps[Len(gaps)])

\* analyzeGaps(referencesMap, minCitations): [gaps, frequency]
analyzeGaps(refsMap, doc, minCitations) ==
    LET existingPapers == buildExistingPapersIndex(doc)
        referenceFrequency == countSources(<<>>, refsMap, existingPapers)
    IN [gaps |-> sort(filterByCount(referenceFrequency, minCitations)),
        frequency |-> referenceFrequency]

\* getReferencesForUsedCitations / getReferencesForAllCitations: the source
\* records in order, each with the reference list found for it
sources(doc, includeUnused) ==
    IF includeUnused THEN getAllBibEntriesArray ELSE getUsedCitationsList(doc)
getReferencesForCitations(citations, provider) ==
    [i \in DOMAIN citations |->
        [key |-> citations[i].key, references |-> provider[citations[i].key]]]

\* options.minCitations || 2: an option that is absent or 0 gives 2
DefaultMinCitations == 2
\* mutant of appliedMinCitations: the option as given
appliedMinCitationsAsGiven(option) == option
appliedMinCitations(option) == IF option = 0 THEN DefaultMinCitations ELSE option

HighPriorityCount == 3
MediumPriorityCount == 2
CountWhere(seq, Test(_)) == Len(SelectSeq(seq, Test))
summary(gaps) ==
    [highPriority |-> CountWhere(gaps, LAMBDA g : g.count >= HighPriorityCount),
     mediumPriority |-> CountWhere(gaps, LAMBDA g : g.count = MediumPriorityCount),
     totalGaps |-> Len(gaps)]

\* findGaps(options) once the lookups are done
findGaps(doc, provider, options) ==
    LET minCitations == appliedMinCitations(options.minCitations)
        refsMap == getReferencesForCitations(sources(doc, options.includeUnused), provider)
        analysis == analyzeGaps(refsMap, doc, minCitations)
    IN [gaps |-> analysis.gaps,
        totalAnalyzed |-> Len(refsMap),
        summary |-> summary(analysis.gaps),
        frequency |-> analysis.frequency,
        applied |-> minCitations]

\* the minCitations options tried: absent (0) and 1 .. MaxMinCitations
MaxMinCitations == 3
Options == [called : {TRUE}, minCitations : 0..MaxMinCitations, includeUnused : BOOLEAN]

\* the gap analysis of the document, run once
FindGaps ==
    \E options \in Options :
        /\ ~gapsCall.called
        /\ gapsCall' = options
        /\ gapsResult' = findGaps(cited, remote, options)
        /\ UNCHANGED <<cited, remote, agg, cites>>
        /\ UNCHANGED <<envVars, cacheVars, cacheGhost, clientVars>>
        /\ UNCHANGED <<inputs, bpc, idx, ids, paper, referencesMap, successCount,
                       errorCount, finished, rejected, failedLookups, consecFailed,
                       fallback, tried, inFlight>>

\* a document over the library, and what the providers return for each of
\* its records
InitGaps ==
    /\ now = StartTime
    /\ faults = NoFaults
    /\ memoryCache = EmptyMap
    /\ cacheIndex = EmptyMap
    /\ files = EmptyMap
    /\ indexFile = [state |-> "missing", index |-> EmptyMap]
    /\ written = EmptyMap
    /\ cacheOp = [op |-> "new", path |-> "", found |-> "none"]
    /\ cacheRet = [ret |-> Null, hit |-> FALSE]
    /\ ClientAtRest
    /\ inputs = [bib |-> TRUE, tex |-> TRUE]
    /\ bpc = "rest"
    /\ idx = 0
    /\ ids = [doi |-> FALSE, arxiv |-> FALSE, title |-> FALSE]
    /\ paper = "none"
    /\ referencesMap = EmptyMap
    /\ successCount = 0
    /\ errorCount = 0
    /\ finished = "running"
    /\ rejected = FALSE
    /\ failedLookups = 0
    /\ consecFailed = 0
    /\ fallback = NoFallback
    /\ tried = <<>>
    /\ inFlight = {}
    /\ cited \in Documents
    /\ remote \in [LibraryKeys -> RefLists]
    /\ gapsCall = NoCall
    /\ gapsResult = NoGaps
    /\ agg = NoAggregation
    /\ cites = Unasked(<<>>, <<>>)

NextGaps == FindGaps

SpecGaps == InitGaps /\ [][NextGaps]_vars

\* ------------------------------------------------------------------------
\* Specification SpecKey: createReferenceKey over pairs of references.  No
\* record is cited, so that the index is empty and no reference is skipped;
\* each of the two records of the .bib file lists one reference.
\* ------------------------------------------------------------------------
\* a reference with a DOI; the same DOI in another case, under another title
\* and year, as the primary provider and as CrossRef deliver it (doi field)
KeyRefDoi == Ref(<<"W">>, 2020, <<"D", "1">>)
KeyRefDoiCase == Ref(<<"Y">>, 2021, <<"d", "1">>)
KeyRefDoiField == crossRefReference(KeyRefDoiCase)
\* another DOI under the title and year of KeyRefDoi
KeyRefDoiOther == Ref(<<"W">>, 2020, <<"d", "2">>)
\* no DOI: the title and year of KeyRefDoi, the same up to case and
\* punctuation, the same title in another year and without a year
KeyRefTitle == Ref(<<"W">>, 2020, NoText)
KeyRefTitlePunct == Ref(<<"w", "!">>, 2020, NoText)
KeyRefTitleYear == Ref(<<"W">>, 2021, NoText)
KeyRefTitleOnly == Ref(<<"W">>, NoYear, NoText)
KeyRefs == {KeyRefDoi, KeyRefDoiCase, KeyRefDoiField, KeyRefDoiOther,
            KeyRefTitle, KeyRefTitlePunct, KeyRefTitleYear, KeyRefTitleOnly}

InitKey ==
    /\ now = StartTime
    /\ faults = NoFaults
    /\ memoryCache = EmptyMap
    /\ cacheIndex = EmptyMap
    /\ files = EmptyMap
    /\ indexFile = [state |-> "missing", index |-> EmptyMap]
    /\ written = EmptyMap
    /\ cacheOp = [op |-> "new", path |-> "", found |-> "none"]
    /\ cacheRet = [ret |-> Null, hit |-> FALSE]
    /\ ClientAtRest
    /\ inputs = [bib |-> TRUE, tex |-> TRUE]
    /\ bpc = "rest"
    /\ idx = 0
    /\ ids = [doi |-> FALSE, arxiv |-> FALSE, title |-> FALSE]
    /\ paper = "none"
    /\ referencesMap = EmptyMap
    /\ successCount = 0
    /\ errorCount = 0
    /\ finished = "running"
    /\ rejected = FALSE
    /\ failedLookups = 0
    /\ consecFailed = 0
    /\ fallback = NoFallback
    /\ tried = <<>>
    /\ inFlight = {}
    /\ cited = <<>>
    /\ remote \in {[k \in LibraryKeys |-> <<f[k]>>] : f \in [LibraryKeys -> KeyRefs]}
    /\ gapsCall = NoCall
    /\ gapsResult = NoGaps
    /\ agg = NoAggregation
    /\ cites = Unasked(<<>>, <<>>)

SpecKey == InitKey /\ [][NextGaps]_vars

\* ------------------------------------------------------------------------
\* Specification SpecAgg: analyzeGaps one reference at a time.  A step is
\* one pass through the body of the inner loop.
\* ------------------------------------------------------------------------
\* the references listed here: one in no record, the same up to case and
\* punctuation, one with the DOI of record B, one without a title
RefOtherPunct == Ref(<<"w", "!">>, 2020, NoText)
AggRefs == {RefOther, RefOtherPunct, RefSameDoi, RefNoTitle}
AggRefLists == SeqsUpTo(AggRefs, MaxRefs)
\* the two nested loops in the order they visit the references
RECURSIVE loopOrder(_)
loopOrder(refsMap) ==
    IF refsMap = <<>> THEN <<>>
    ELSE [i \in DOMAIN Head(refsMap).references |->
             [key |-> Head(refsMap).key, ref |-> Head(refsMap).references[i]]]
         \o loopOrder(Tail(refsMap))
\* findGaps with the default minCitations, over the used or over all records
AggOptions == {o \in Options : o.minCitations = 0}

\* analyzeGaps is entered: the index is built, the loops start
AggStart ==
    \E options \in AggOptions :
        /\ agg.at = "rest"
        /\ gapsCall' = options
        /\ agg' = [at |-> "counting",
                   existing |-> buildExistingPapersIndex(cited),
                   todo |-> loopOrder(getReferencesForCitations(
                                sources(cited, options.includeUnused), remote)),
                   done |-> <<>>,
                   frequency |-> <<>>]
        /\ UNCHANGED <<cited, remote, gapsResult, cites>>
        /\ UNCHANGED <<envVars, cacheVars, cacheGhost, clientVars>>
        /\ UNCHANGED <<inputs, bpc, idx, ids, paper, referencesMap, successCount,
                       errorCount, finished, rejected, failedLookups, consecFailed,
                       fallback, tried, inFlight>>

\* the body of the inner loop, for the next reference
AggCount ==
    /\ agg.at = "counting"
    /\ agg.todo # <<>>
    /\ agg' = [agg EXCEPT
                  !.frequency = countReference(@, Head(agg.todo).key, Head(agg.todo).ref,
                                               agg.existing),
                  !.todo = Tail(@),
                  !.done = Append(@, Head(agg.todo))]
    /\ UNCHANGED <<cited, remote, gapsCall, gapsResult, cites>>
    /\ UNCHANGED <<envVars, cacheVars, cacheGhost, clientVars>>
    /\ UNCHANGED <<inputs, bpc, idx, ids, paper, referencesMap, successCount,
                   errorCount, finished, rejected, failedLookups, consecFailed,
                   fallback, tried, inFlight>>

\* the loops are over: filter, sort, return; findGaps adds the summary
AggReturn ==
    /\ agg.at = "counting"
    /\ agg.todo = <<>>
    /\ agg' = [agg EXCEPT !.at = "returned"]
    /\ gapsResult' =
          LET minCitations == appliedMinCitations(gapsCall.minCitations)
              gaps == sort(filterByCount(agg.frequency, minCitations))
          IN [gaps |-> gaps,
              totalAnalyzed |-> Len(sources(cited, gapsCall.includeUnused)),
              summary |-> summary(gaps),
              frequency |-> agg.frequency,
              applied |-> minCitations]
    /\ UNCHANGED <<cited, remote, gapsCall, cites>>
    /\ UNCHANGED <<envVars, cacheVars, cacheGhost, clientVars>>
    /\ UNCHANGED <<inputs, bpc, idx, ids, paper, referencesMap, successCount,
                   errorCount, finished, rejected, failedLookups, consecFailed,
                   fallback, tried, inFlight>>

InitAgg ==
    /\ now = StartTime
    /\ faults = NoFaults
    /\ memoryCache = EmptyMap
    /\ cacheIndex = EmptyMap
    /\ files = EmptyMap
    /\ indexFile = [state |-> "missing", index |-> EmptyMap]
    /\ written = EmptyMap
    /\ cacheOp = [op |-> "new", path |-> "", found |-> "none"]
    /\ cacheRet = [ret |-> Null, hit |-> FALSE]
    /\ ClientAtRest
    /\ inputs = [bib |-> TRUE, tex |-> TRUE]
    /\ bpc = "rest"
    /\ idx = 0
    /\ ids = [doi |-> FALSE, arxiv |-> FALSE, title |-> FALSE]
    /\ paper = "none"
    /\ referencesMap = EmptyMap
    /\ successCount = 0
    /\ errorCount = 0
    /\ finished = "running"
    /\ rejected = FALSE
    /\ failedLookups = 0
    /\ consecFailed = 0
    /\ fallback = NoFallback
    /\ tried = <<>>
    /\ inFlight = {}
    /\ cited \in Documents
    /\ remote \in [LibraryKeys -> AggRefLists]
    /\ gapsCall = NoCall
    /\ gapsResult = NoGaps
    /\ agg = NoAggregation
    /\ cites = Unasked(<<>>, <<>>)

NextAgg == AggStart \/ AggCount \/ AggReturn

SpecAgg == InitAgg /\ [][NextAgg]_vars

\* ------------------------------------------------------------------------
\* Specification SpecCite: a CitationAnalyzer over a .bib file and a
\* document, and what GapAnalyzer takes from it
\* ------------------------------------------------------------------------
\* the records a .bib file can hold: A and B have the same DOI up to case,
\* the same ISBN up to hyphens and the same title up to braces, case and
\* punctuation; C has a title and a year only
CiteA == [key |-> "A", title |-> <<"X">>, year |-> 2020, doi |-> <<"d", "1">>,
          urlDoi |-> NoText, isbn |-> <<"1", "-", "2">>]
CiteB == [key |-> "B", title |-> <<"{", "x", "}", "!">>, year |-> 2020,
          doi |-> <<"D", "1">>, urlDoi |-> NoText, isbn |-> <<"1", "2">>]
CiteC == [key |-> "C", title |-> <<"Y">>, year |-> 2021, doi |-> NoText,
          urlDoi |-> NoText, isbn |-> NoText]
CiteRecords == {CiteA, CiteB, CiteC}
NoRepeat(seq) == \A i, j \in DOMAIN seq : i # j => seq[i] # seq[j]
Bibliographies ==
    {b \in SeqsUpTo(CiteRecords, Cardinality(CiteRecords)) : NoRepeat(b)}
\* the keys a document can cite: those of the records and one of no record
MissingKey == "M"
CitedKeys == {r.key : r \in CiteRecords} \cup {MissingKey}
\* how many keys the document cites
MaxUsed == 2
UsedSets == {u \in SeqsUpTo(CitedKeys, MaxUsed) : NoRepeat(u)}

\* bib status: getStats()
CiteStats ==
    /\ "stats" \notin cites.asked
    /\ cites' = [cites EXCEPT !.asked = @ \cup {"stats"},
                              !.stats = getStats(cites.bib, cites.used)]
    /\ UNCHANGED <<envVars, cacheVars, cacheGhost, clientVars>>
    /\ UNCHANGED <<inputs, bpc, idx, ids, paper, referencesMap, successCount,
                   errorCount, finished, rejected, failedLookups, consecFailed,
                   fallback, tried, inFlight, cited, remote, gapsCall, gapsResult, agg>>

\* getUnusedCitations()
CiteUnused ==
    /\ "unused" \notin cites.asked
    /\ cites' = [cites EXCEPT !.asked = @ \cup {"unused"},
                              !.unused = unusedCitations(cites.bib, cites.used)]
    /\ UNCHANGED <<envVars, cacheVars, cacheGhost, clientVars>>
    /\ UNCHANGED <<inputs, bpc, idx, ids, paper, referencesMap, successCount,
                   errorCount, finished, rejected, failedLookups, consecFailed,
                   fallback, tried, inFlight, cited, remote, gapsCall, gapsResult, agg>>

\* findGaps: getReferencesForUsedCitations / getReferencesForAllCitations
\* hand the source records to findPaper, one after the other
CiteSources ==
    \E includeUnused \in BOOLEAN :
        /\ "sources" \notin cites.asked
        /\ cites' = [cites EXCEPT
                        !.asked = @ \cup {"sources"},
                        !.handed = IF includeUnused THEN cites.bib
                                   ELSE usedCitationsList(cites.bib, cites.used)]
        /\ UNCHANGED <<envVars, cacheVars, cacheGhost, clientVars>>
        /\ UNCHANGED <<inputs, bpc, idx, ids, paper, referencesMap, successCount,
                       errorCount, finished, rejected, failedLookups, consecFailed,
                       fallback, tried, inFlight, cited, remote, gapsCall, gapsResult,
                       agg>>

\* analyzeGaps: buildExistingPapersIndex()
CiteIndex ==
    /\ "index" \notin cites.asked
    /\ cites' = [cites EXCEPT
                    !.asked = @ \cup {"index"},
                    !.index = existingPapersMaps(usedCitationsList(cites.bib, cites.used))]
    /\ UNCHANGED <<envVars, cacheVars, cacheGhost, clientVars>>
    /\ UNCHANGED <<inputs, bpc, idx, ids, paper, referencesMap, successCount,
                   errorCount, finished, rejected, failedLookups, consecFailed,
                   fallback, tried, inFlight, cited, remote, gapsCall, gapsResult, agg>>

InitCite ==
    /\ now = StartTime
    /\ faults = NoFaults
    /\ memoryCache = EmptyMap
    /\ cacheIndex = EmptyMap
    /\ files = EmptyMap
    /\ indexFile = [state |-> "missing", index |-> EmptyMap]
    /\ written = EmptyMap
    /\ cacheOp = [op |-> "new", path |-> "", found |-> "none"]
    /\ cacheRet = [ret |-> Null, hit |-> FALSE]
    /\ ClientAtRest
    /\ inputs = [bib |-> TRUE, tex |-> TRUE]
    /\ bpc = "rest"
    /\ idx = 0
    /\ ids = [doi |-> FALSE, arxiv |-> FALSE, title |-> FALSE]
    /\ paper = "none"
    /\ referencesMap = EmptyMap
    /\ successCount = 0
    /\ errorCount = 0
    /\ finished = "running"
    /\ rejected = FALSE
    /\ failedLookups = 0
    /\ consecFailed = 0
    /\ fallback = NoFallback
    /\ tried = <<>>
    /\ inFlight = {}
    /\ cited = <<>>
    /\ remote = EmptyMap
    /\ gapsCall = NoCall
    /\ gapsResult = NoGaps
    /\ agg = NoAggregation
    /\ \E bib \in Bibliographies, used \in UsedSets : cites = Unasked(bib, used)

NextCite == CiteStats \/ CiteUnused \/ CiteSources \/ CiteIndex

SpecCite == InitCite /\ [][NextCite]_vars

\* ------------------------------------------------------------------------
\* C1: a get(p) that follows set(p, d) in the same run returns d while the
\* entry is younger than maxAge (7 days), and returns absent (null) once
\* the entry was written more than maxAge ago.
\* ------------------------------------------------------------------------
CacheRoundTrip ==
    (cacheOp.op = "get" /\ cacheOp.path \in DOMAIN written) =>
        LET w == written[cacheOp.path]
        IN  /\ (now - w.at < maxAge) => cacheRet = [ret |-> w.data, hit |-> TRUE]
            /\ (now - w.at > maxAge) => cacheRet = [ret |-> Null, hit |-> FALSE]

\* a get one millisecond before the entry expires returned the body set
CacheRoundTripWitness ==
    /\ cacheOp.op = "get"
    /\ cacheOp.path \in DOMAIN written
    /\ written[cacheOp.path].data \in Bodies
    /\ now - written[cacheOp.path].at = maxAge - 1
    /\ cacheRet = [ret |-> written[cacheOp.path].data, hit |-> TRUE]

\* a get after the entry expired returned absent
CacheExpiredWitness ==
    /\ cacheOp.op = "get"
    /\ cacheOp.path \in DOMAIN written
    /\ now - written[cacheOp.path].at > maxAge
    /\ ~cacheRet.hit


\* ------------------------------------------------------------------------
\* C2: once a lookup of path p came back 404, a later makeRequest(p) made
\* within maxAge is answered from the cache and issues no network request.
\* ------------------------------------------------------------------------
NotFoundServedFromCache ==
    callInfo.notFound =>
        /\ pc = "idle"
        /\ sends = 0
        /\ result.kind = "resolved" /\ result.fromCache

\* ------------------------------------------------------------------------
\* C3: a makeRequest whose path has a fresh cache entry issues no network
\* request, leaves lastRequestTime as it found it, and its result has
\* fromCache = true.
\* ------------------------------------------------------------------------
CacheHitBypassesNetwork ==
    callInfo.fresh =>
        /\ pc = "idle"
        /\ sends = 0
        /\ lastRequestTime = callInfo.watermark
        /\ result.kind = "resolved" /\ result.fromCache

\* the same for the entries whose payload is not null, which the code does
\* serve from the cache
CacheHitOfBodyBypassesNetwork ==
    (callInfo.fresh /\ callInfo.payload # Null) =>
        /\ pc = "idle"
        /\ sends = 0
        /\ lastRequestTime = callInfo.watermark
        /\ result.kind = "resolved" /\ result.fromCache

\* ------------------------------------------------------------------------
\* C4: two consecutive network requests to the primary provider carry
\* watermarks at least rateLimitDelay (1100 ms) apart, and the watermark is
\* stamped, with the current time, before every network request.
\* ------------------------------------------------------------------------
MinimumInterval ==
    /\ stamps[1] # Never => stamps[2] - stamps[1] >= rateLimitDelay
    /\ pc \in {"send", "inflight"} => lastRequestTime = now
    /\ pc = "inflight" => stamps[2] = lastRequestTime

\* a request left exactly rateLimitDelay after the one before it: the rate
\* limiter slept the remainder
MinimumIntervalWitness ==
    /\ pc = "inflight"
    /\ stamps[1] # Never
    /\ stamps[2] - stamps[1] = rateLimitDelay

\* ------------------------------------------------------------------------
\* C5: one makeRequest issues at most maxRetries + 1 = 5 network requests,
\* all for the same path; when every one of them is answered 429 it ends
\* with the error 'Rate limit exceeded'; and it always ends.
\* ------------------------------------------------------------------------
RetriesBounded ==
    /\ [](/\ sends <= maxRetries + 1
          /\ retryCount <= maxRetries
          /\ sends > 0 => reqPath = callInfo.path
          /\ (pc = "idle" /\ lastOutcome = "429") =>
                (sends = maxRetries + 1 /\ result = Rejected("Rate limit exceeded")))
    /\ (pc # "idle") ~> (pc = "idle")

\* five attempts were all answered 429
RetriesExhaustedWitness ==
    /\ pc = "idle"
    /\ sends = 5
    /\ lastOutcome = "429"
    /\ result = Rejected("Rate limit exceeded")

\* ------------------------------------------------------------------------
\* C6: the backoff sleeps of one request are 3000 ms after the first 429
\* and double after each further one, never exceeding 30000 ms.
\* ------------------------------------------------------------------------
BackoffSchedule ==
    \A i \in 1..Len(backoffs) :
        /\ backoffs[i] <= 30000
        /\ i = 1 => backoffs[i] = 3000
        /\ i > 1 => backoffs[i] = Min(2 * backoffs[i - 1], 30000)

\* the sleep after the fourth 429 of a request
BackoffScheduleWitness ==
    /\ Len(backoffs) = 4
    /\ backoffs[4] = 24000
    /\ retryCount = 4

\* ------------------------------------------------------------------------
\* C7: a response with a status other than 200, 404 and 429, a connection
\* error and a timeout each end the request with an error at once: the
\* attempt is not retried.
\* ------------------------------------------------------------------------
FailuresAreTerminal ==
    lastOutcome \in {"status", "error", "timeout"} =>
        /\ pc = "idle"
        /\ result.kind = "rejected"

\* a first attempt that timed out ended the request
FailuresAreTerminalWitness ==
    /\ lastOutcome = "timeout"
    /\ sends = 1
    /\ pc = "idle"
    /\ result = Rejected("Request timeout")

\* ------------------------------------------------------------------------
\* C8: findGaps returns a result whatever the network outcomes are: a record
\* whose lookup found no paper contributes no references, and findGaps
\* raises only when the bibliography or the document could not be read.
\* ------------------------------------------------------------------------
LookupPcs == {"doi", "crossref", "arxiv", "search", "byId", "classify", "thrown"}
FindGapsAlwaysReturns ==
    /\ (bpc = "loop" /\ idx > 0 /\ paper = "none") => idx \notin DOMAIN referencesMap
    /\ (finished = "raised") => ~(bibParse(inputs) /\ texParse(inputs))

\* what does hold: findGaps raises only on unreadable inputs or on a
\* collected reference list that is no array of objects
RaisedOnlyByInputsOrReferences ==
    (finished = "raised") =>
        \/ ~(bibParse(inputs) /\ texParse(inputs))
        \/ analyzeGapsThrows(referencesMap)

\* ------------------------------------------------------------------------
\* C9: at the end of the batch errorCount equals the number of records whose
\* lookup failed.
\* ------------------------------------------------------------------------
ErrorCountEqualsFailedLookups ==
    (bpc \in {"analyze", "end"}) => errorCount = failedLookups

\* what does hold: only lookups that failed are counted
ErrorCountAtMostFailedLookups == errorCount <= failedLookups

\* ------------------------------------------------------------------------
\* C10: once more than ErrorThreshold consecutive lookups have failed and no
\* lookup has succeeded, no further record is looked up.
\* ------------------------------------------------------------------------
BatchStopsAfterConsecutiveFailures ==
    (consecFailed > ErrorThreshold /\ successCount = 0) => bpc \notin LookupPcs

\* what does hold: the batch stops once more than ErrorThreshold lookups
\* have thrown and none has succeeded
BatchStopsAfterThrownLookups ==
    (errorCount > ErrorThreshold /\ successCount = 0) => bpc \notin LookupPcs

\* ------------------------------------------------------------------------
\* Reading the outcome of a findGaps call
\* ------------------------------------------------------------------------
\* the source records of the call and the references that came in for them
SourceKeys == {c.key : c \in Range(sources(cited, gapsCall.includeUnused))}
Incoming == UNION {Range(remote[k]) : k \in SourceKeys}
UsedRecords == Range(getUsedCitationsList(cited))
\* the reference is a gap: some record of gaps has its Reference Key
InGaps(ref) ==
    \E i \in DOMAIN gapsResult.gaps : gapsResult.gaps[i].key = createReferenceKey(ref, 0)
\* the DOI a reference carries
DoiOf(ref) == IF ref.doi # NoText THEN ref.doi ELSE ref.externalIds
SameDoi(a, b) == a # NoText /\ b # NoText /\ toLowerCase(a) = toLowerCase(b)
\* number of positions of a sequence that satisfy a test
Occurrences(seq, Test(_)) == Cardinality({i \in DOMAIN seq : Test(seq[i])})

\* ------------------------------------------------------------------------
\* C11: a reference whose DOI equals, ignoring case, the DOI of a used
\* bibliography record is in no gap, whatever its title and year and
\* whatever minCitations is.
\* ------------------------------------------------------------------------
ReferenceWithUsedDoiExcluded ==
    gapsCall.called =>
        \A ref \in Incoming :
            (\E rec \in UsedRecords : SameDoi(DoiOf(ref), extractIdentifiers(rec).doi))
                => ~InGaps(ref)

\* record B is cited, a reference with B's DOI in other case and another
\* title came in, and gaps of count 1 are reported
ReferenceWithUsedDoiWitness ==
    /\ gapsCall.called
    /\ gapsResult.applied = 1
    /\ "B" \in Range(cited)
    /\ RefSameDoi \in Incoming
    /\ gapsResult.gaps # <<>>
    /\ ~InGaps(RefSameDoi)

\* ------------------------------------------------------------------------
\* C12: a reference without a DOI whose normalized title is not empty and
\* equals that of a used bibliography record is in no gap and in no Reference Frequency
\* Record, whether its year is that of the record or another one: the
\* (title, year) pair is tested first and the title alone after it.
\* ------------------------------------------------------------------------
SameTitle(ref, rec) ==
    /\ ref.title # NoText
    /\ normalizeTitle(ref.title) # NoText
    /\ normalizeTitle(ref.title) = extractIdentifiers(rec).normalizedTitle
IsCandidate(ref) ==
    \E i \in DOMAIN gapsResult.frequency :
        gapsResult.frequency[i].key = createReferenceKey(ref, 0)
ReferenceWithUsedTitleExcluded ==
    gapsCall.called =>
        \A ref \in Incoming :
            (DoiOf(ref) = NoText /\ \E rec \in UsedRecords : SameTitle(ref, rec))
                => (~InGaps(ref) /\ ~IsCandidate(ref))

\* record A is cited, a reference with A's title in another year came in,
\* gaps of count 1 are reported, and the reference is none of them
ReferenceWithUsedTitleWitness ==
    /\ gapsCall.called
    /\ gapsResult.applied = 1
    /\ "A" \in Range(cited)
    /\ RefSameTitleOtherYear \in Incoming
    /\ gapsResult.gaps # <<>>
    /\ ~IsCandidate(RefSameTitleOtherYear)

\* C12 as stated: a reference without a DOI is excluded when title and year
\* are those of a used record, and stays a gap candidate when only the
\* title is.
SameTitleOtherYearStaysCandidate ==
    gapsCall.called =>
        \A ref \in Incoming :
            DoiOf(ref) = NoText =>
                /\ (\E rec \in UsedRecords :
                        SameTitle(ref, rec) /\ ref.year # NoYear /\ ref.year = rec.year)
                    => ~IsCandidate(ref)
                /\ ( /\ \E rec \in UsedRecords : SameTitle(ref, rec)
                     /\ \A rec \in UsedRecords : SameTitle(ref, rec) => ref.year # rec.year )
                    => IsCandidate(ref)

\* ------------------------------------------------------------------------
\* C13: the count of every Reference Frequency Record is the number of
\* distinct source keys whose reference lists hold an entry with its
\* Reference Key, which is the length of its citedBy.
\* ------------------------------------------------------------------------
\* the entries analyzeGaps aggregates: titled and not in the bibliography
Aggregated(ref) ==
    ref.title # NoText /\ ~isPaperInBibliography(ref, buildExistingPapersIndex(cited))
SourcesListing(refKey) ==
    {k \in SourceKeys :
        \E ref \in Range(remote[k]) : Aggregated(ref) /\ createReferenceKey(ref, 0) = refKey}
CountIsNumberOfSources ==
    gapsCall.called =>
        \A i \in DOMAIN gapsResult.frequency :
            LET data == gapsResult.frequency[i]
            IN /\ data.count = Len(data.citedBy)
               /\ data.count = Cardinality(SourcesListing(data.key))

\* what does hold: citedBy lists exactly those sources, each once
CitedByIsSourcesListing ==
    gapsCall.called =>
        \A i \in DOMAIN gapsResult.frequency :
            LET data == gapsResult.frequency[i]
            IN /\ Range(data.citedBy) = SourcesListing(data.key)
               /\ Len(data.citedBy) = Cardinality(SourcesListing(data.key))

\* ------------------------------------------------------------------------
\* C14: with minCitations = N, no Reference Frequency Record with count < N
\* is in gaps and every one with count >= N is.
\* ------------------------------------------------------------------------
FilteredByMinCitations ==
    gapsCall.called =>
        /\ \A i \in DOMAIN gapsResult.gaps : gapsResult.gaps[i].count >= gapsResult.applied
        /\ \A i \in DOMAIN gapsResult.frequency :
               gapsResult.frequency[i].count >= gapsResult.applied
                   => gapsResult.frequency[i] \in Range(gapsResult.gaps)

\* one record was filtered out, one has exactly N citations and is a gap
FilteredByMinCitationsWitness ==
    /\ gapsCall.called
    /\ \E i \in DOMAIN gapsResult.frequency :
           gapsResult.frequency[i].count < gapsResult.applied
    /\ \E i \in DOMAIN gapsResult.gaps : gapsResult.gaps[i].count = gapsResult.applied

\* ------------------------------------------------------------------------
\* C15: a titled reference with a DOI that is in the lists of k sources and
\* not in the bibliography is once in gaps when minCitations <= k, with
\* count k and citedBy naming those k sources in the order they were
\* processed.
\* ------------------------------------------------------------------------
SourceOrder == [i \in DOMAIN sources(cited, gapsCall.includeUnused) |->
                    sources(cited, gapsCall.includeUnused)[i].key]
SourcesWithDoi(doi) ==
    SelectSeq(SourceOrder,
              LAMBDA k : \E ref \in Range(remote[k]) : SameDoi(DoiOf(ref), doi))
SharedReferenceListedOnce ==
    gapsCall.called =>
        \A ref \in Incoming :
            LET citing == SourcesWithDoi(DoiOf(ref))
                refKey == createReferenceKey(ref, 0)
            IN (DoiOf(ref) # NoText /\ Aggregated(ref) /\ gapsResult.applied <= Len(citing))
                => /\ Occurrences(gapsResult.gaps, LAMBDA g : g.key = refKey) = 1
                   /\ \A i \in DOMAIN gapsResult.gaps :
                          gapsResult.gaps[i].key = refKey =>
                              /\ gapsResult.gaps[i].count = Len(citing)
                              /\ gapsResult.gaps[i].citedBy = citing

\* what does hold: it is in gaps once, cited by those sources in that order
SharedReferenceCitedByInOrder ==
    gapsCall.called =>
        \A ref \in Incoming :
            LET citing == SourcesWithDoi(DoiOf(ref))
                refKey == createReferenceKey(ref, 0)
            IN (DoiOf(ref) # NoText /\ Aggregated(ref) /\ gapsResult.applied <= Len(citing))
                => /\ Occurrences(gapsResult.gaps, LAMBDA g : g.key = refKey) = 1
                   /\ \A i \in DOMAIN gapsResult.gaps :
                          gapsResult.gaps[i].key = refKey =>
                              gapsResult.gaps[i].citedBy = citing

\* ------------------------------------------------------------------------
\* C16: gaps is ordered by count, non-increasing.
\* ------------------------------------------------------------------------
GapsSortedByCount ==
    gapsCall.called =>
        \A i, j \in DOMAIN gapsResult.gaps :
            i < j => gapsResult.gaps[i].count >= gapsResult.gaps[j].count

\* two gaps were aggregated in the other order: the less cited one first
GapsSortedByCountWitness ==
    /\ gapsCall.called
    /\ \E i, j \in DOMAIN gapsResult.frequency :
           /\ i < j
           /\ gapsResult.frequency[i].count < gapsResult.frequency[j].count
           /\ gapsResult.frequency[i] \in Range(gapsResult.gaps)
           /\ gapsResult.frequency[j] \in Range(gapsResult.gaps)

\* ------------------------------------------------------------------------
\* C17: summary.highPriority is the number of gaps with count >= 3,
\* summary.mediumPriority the number with count exactly 2, summary.totalGaps
\* the number of gaps; highPriority + mediumPriority <= totalGaps, with
\* equality when the applied minCitations (the option, or 2 when the option
\* is absent) is 2 or more.
\* ------------------------------------------------------------------------
GapPositions(Test(_)) == {i \in DOMAIN gapsResult.gaps : Test(gapsResult.gaps[i])}
SummaryCounts ==
    gapsCall.called =>
        LET sum == gapsResult.summary
        IN /\ sum.highPriority = Cardinality(GapPositions(LAMBDA g : g.count >= 3))
           /\ sum.mediumPriority = Cardinality(GapPositions(LAMBDA g : g.count = 2))
           /\ sum.totalGaps = Len(gapsResult.gaps)
           /\ sum.highPriority + sum.mediumPriority <= sum.totalGaps
           /\ (gapsCall.minCitations = 0 \/ gapsCall.minCitations >= 2)
                  => sum.highPriority + sum.mediumPriority = sum.totalGaps

\* a call without the option reported a high-priority gap and nothing
\* else, while a reference counted once was left out
SummaryCountsWitness ==
    /\ gapsCall.called
    /\ gapsCall.minCitations = 0
    /\ gapsResult.summary.highPriority = 1
    /\ gapsResult.summary.totalGaps = 1
    /\ \E i \in DOMAIN gapsResult.frequency : gapsResult.frequency[i].count = 1

\* ------------------------------------------------------------------------
\* C18: the Existing-Papers Index holds the used records only: with
\* includeUnused, a titled reference that matches only records the document
\* does not cite is aggregated (and is a gap when cited often enough), and
\* every record of the bibliography, cited or not, is a source.
\* ------------------------------------------------------------------------
MatchesRecord(ref, rec) ==
    SameDoi(DoiOf(ref), extractIdentifiers(rec).doi) \/ SameTitle(ref, rec)
MatchesOnlyUnused(ref) ==
    /\ ref.title # NoText
    /\ \E rec \in Range(getAllBibEntriesArray) \ UsedRecords : MatchesRecord(ref, rec)
    /\ \A rec \in UsedRecords : ~MatchesRecord(ref, rec)
FallbackAfterRestrictedDoiLookup ==
    /\ fallback.lookups <= 1
    /\ bpc = "crossref" => (ids.doi /\ fallback.via = "doi" /\ fallback.lookups = 0)
    /\ bpc = "classify" =>
           /\ fallback.lookups = 1 <=> (fallback.via = "doi" /\ fallback.primary = "restricted")
           /\ fallback.outcome = "list" => paper = "refs"

\* the DOI lookup resolved a restricted result, CrossRef returned a list and
\* findPaper returns the paper with it
FallbackAfterRestrictedDoiLookupWitness ==
    /\ bpc = "classify"
    /\ fallback = [via |-> "doi", primary |-> "restricted", lookups |-> 1, outcome |-> "list"]
    /\ paper = "refs"

\* C19 as stated: whichever lookup resolved a result with a nonzero reference
\* count and no reference list for a record that has a DOI, one CrossRef
\* lookup was issued for it.
FallbackAfterEveryRestrictedResult ==
    (bpc = "classify" /\ ids.doi /\ fallback.primary = "restricted")
        => fallback.lookups = 1

\* the entries CrossRef returns are aggregated like entries of the primary
\* provider with the same title, year and DOI: same Reference Keys, counts
\* and citing sources
SameAggregation(f, g) ==
    /\ Len(f) = Len(g)
    /\ \A i \in DOMAIN f :
           f[i].key = g[i].key /\ f[i].count = g[i].count /\ f[i].citedBy = g[i].citedBy
CrossRefEntriesAggregateAsPrimary ==
    \A list \in RefLists :
        SameAggregation(
            countReferences(<<>>, "A", list, buildExistingPapersIndex(cited)),
            countReferences(<<>>, "A", [i \in DOMAIN list |-> crossRefReference(list[i])],
                            buildExistingPapersIndex(cited)))

\* ------------------------------------------------------------------------
\* C20: when the CrossRef lookup fails (connection error, timeout,
\* unparsable body, status other than 200) or returns nothing, getPaperByDOI
\* still returns the primary result, without references, and nothing is
\* thrown to the caller.
\* ------------------------------------------------------------------------
FallbackFailureSwallowed ==
    /\ bpc = "thrown" => fallback.lookups = 0
    /\ (bpc = "classify" /\ fallback.lookups > 0 /\ fallback.outcome # "list")
           => (paper = "restricted" /\ paper = fallback.primary /\ ~rejected)

\* the CrossRef lookup timed out and findPaper returns the restricted paper
FallbackFailureSwallowedWitness ==
    /\ bpc = "classify"
    /\ fallback.outcome = "timeout"
    /\ paper = "restricted"
    /\ errorCount = 0

\* ------------------------------------------------------------------------
\* C21: findPaper tries the strategies in the order DOI lookup, arXiv
\* lookup, title search, and returns the result of the first one that
\* succeeds: once a strategy has returned a paper, no request of a later
\* strategy is issued for the record.
\* ------------------------------------------------------------------------
\* the strategies a record has the identifiers for, in findPaper's order
Applicable(i) ==
    (IF i.doi THEN <<"doi">> ELSE <<>>)
        \o (IF i.arxiv THEN <<"arxiv">> ELSE <<>>)
        \o (IF i.title THEN <<"search">> ELSE <<>>)
IsPrefix(a, b) == Len(a) <= Len(b) /\ a = SubSeq(b, 1, Len(a))
TriedStrategies == [k \in DOMAIN tried |-> tried[k].strategy]
\* the lookup that resolved the record, as a strategy
StrategyOf(via) == IF via = "byId" THEN "search" ELSE via

FirstSuccessWins ==
    bpc \in {"doi", "crossref", "arxiv", "search", "byId", "classify", "thrown"} =>
        /\ IsPrefix(TriedStrategies, Applicable(ids))
        /\ \A k \in 1..(Len(tried) - 1) : ~tried[k].ok
        /\ bpc \in {"doi", "arxiv", "search"} =>
               /\ paper = "none"
               /\ Len(tried) < Len(Applicable(ids))
               /\ Applicable(ids)[Len(tried) + 1] = bpc
        /\ bpc = "classify" =>
               /\ (paper # "none") = (tried # <<>> /\ tried[Len(tried)].ok)
               /\ paper = "none" => TriedStrategies = Applicable(ids)
               /\ fallback.via # "none" =>
                      /\ StrategyOf(fallback.via) = tried[Len(tried)].strategy
                      /\ paper \in {fallback.primary, "refs"}

\* a record with all three identifiers whose DOI lookup returned nothing and
\* whose arXiv lookup returned a paper: no title search was issued
FirstSuccessWinsWitness ==
    /\ bpc = "classify"
    /\ ids = [doi |-> TRUE, arxiv |-> TRUE, title |-> TRUE]
    /\ tried = <<[strategy |-> "doi", ok |-> FALSE], [strategy |-> "arxiv", ok |-> TRUE]>>
    /\ paper = "refs"

\* ------------------------------------------------------------------------
\* C28: source records are resolved one at a time, in the order of the
\* candidate list: the lookup of record i+1 starts only when the lookup of
\* record i (with its retries, its backoff sleeps and its fallback call) has
\* ended, and at no time are two lookups in flight.
\* ------------------------------------------------------------------------
AtMostOneInFlight ==
    /\ Cardinality(inFlight) <= 1
    /\ bpc \in LookupPcs => inFlight = {idx}
StartsAfterThePreviousEnded ==
    idx' # idx =>
        /\ idx' = idx + 1
        /\ inFlight = {}
        /\ inFlight' = {idx'}
OneLookupAtATime == []AtMostOneInFlight /\ [][StartsAfterThePreviousEnded]_vars

\* the second record's lookup is in its fallback call, after the first
\* record's lookup ended, and is the only one in flight
OneLookupAtATimeWitness ==
    /\ idx = 2
    /\ bpc = "crossref"
    /\ inFlight = {2}
    /\ failedLookups + successCount = 1

\* ------------------------------------------------------------------------
\* C30: a title search request is issued for a record only when the record
\* has neither a DOI nor an arXiv identifier; for a record that has a DOI,
\* only the DOI lookup is attempted.
\* ------------------------------------------------------------------------
TitleSearchOnlyWithoutIdentifiers ==
    bpc \in LookupPcs =>
        /\ (\E k \in DOMAIN tried : tried[k].strategy = "search") =>
               (~ids.doi /\ ~ids.arxiv)
        /\ ids.doi => \A k \in DOMAIN tried : tried[k].strategy = "doi"

\* C30 as the code has it: a title search request is issued for a record
\* only when the record has a title and every lookup by an identifier it
\* has (DOI, arXiv) was made before and returned no paper; for a record
\* that has a DOI the DOI lookup comes first, and another strategy is tried
\* only after it returned no paper.
TitleSearchIsTheLastResort ==
    bpc \in LookupPcs =>
        /\ \A k \in DOMAIN tried :
               tried[k].strategy = "search" =>
                   /\ ids.title
                   /\ \A j \in 1..(k - 1) : ~tried[j].ok
                   /\ ids.doi => \E j \in 1..(k - 1) : tried[j].strategy = "doi"
                   /\ ids.arxiv => \E j \in 1..(k - 1) : tried[j].strategy = "arxiv"
        /\ (ids.doi /\ tried # <<>>) =>
               /\ tried[1].strategy = "doi"
               /\ Len(tried) > 1 => ~tried[1].ok

\* a record with a DOI and a title: the DOI lookup returned nothing, the
\* title search was issued and resolved the record
TitleSearchIsTheLastResortWitness ==
    /\ bpc = "classify"
    /\ ids = [doi |-> TRUE, arxiv |-> FALSE, title |-> TRUE]
    /\ tried = <<[strategy |-> "doi", ok |-> FALSE], [strategy |-> "search", ok |-> TRUE]>>
    /\ fallback.via = "byId"

\* ------------------------------------------------------------------------
\* C22: get(p) on an entry that is expired in the hot tier or in the durable
\* tier returns absent and leaves the entry in neither tier: afterwards the
\* key is neither in the in-process map nor in the durable index, and its
\* file is removed.
\* ------------------------------------------------------------------------
KeyOf(p) == generateCacheKey(p)
\* an entry of this timestamp is at least maxAge old at time t
ExpiredAt(timestamp, t) == t - timestamp >= maxAge
ExpiredInHot(p) ==
    KeyOf(p) \in DOMAIN memoryCache /\ ExpiredAt(memoryCache[KeyOf(p)].timestamp, now)
ExpiredInDurable(p) ==
    KeyOf(p) \in DOMAIN cacheIndex /\ ExpiredAt(cacheIndex[KeyOf(p)].timestamp, now)
FreshInHot(p) ==
    KeyOf(p) \in DOMAIN memoryCache /\ ~ExpiredAt(memoryCache[KeyOf(p)].timestamp, now)
\* this step is a get(p)
GetOf(p) == cacheOp'.op = "get" /\ cacheOp'.path = p
InNoTier(p) ==
    /\ KeyOf(p) \notin DOMAIN memoryCache
    /\ KeyOf(p) \notin DOMAIN cacheIndex
    /\ KeyOf(p) \notin DOMAIN files
PurgedBy(p) ==
    (GetOf(p) /\ (ExpiredInHot(p) \/ ExpiredInDurable(p))) =>
        (~cacheRet'.hit /\ InNoTier(p)')
ExpiredEntryPurged == [][\A p \in Paths : PurgedBy(p)]_vars

\* it is so as long as no file-system operation of the run has failed
ExpiredEntryPurgedWithoutFaults ==
    [][\A p \in Paths : faults' = NoFaults => PurgedBy(p)]_vars

\* ------------------------------------------------------------------------
\* C23: after cleanup() no expired entry remains in the in-process map or in
\* the durable index, and every entry that was fresh before the call is
\* still present with the same payload and timestamp.
\* ------------------------------------------------------------------------
NoExpiredEntry ==
    /\ \A k \in DOMAIN memoryCache : ~ExpiredAt(memoryCache[k].timestamp, now)
    /\ \A k \in DOMAIN cacheIndex : ~ExpiredAt(cacheIndex[k].timestamp, now)
FreshEntriesKept ==
    /\ \A k \in DOMAIN memoryCache :
           ~ExpiredAt(memoryCache[k].timestamp, now) =>
               (k \in DOMAIN memoryCache' /\ memoryCache'[k] = memoryCache[k])
    /\ \A k \in DOMAIN cacheIndex :
           ~ExpiredAt(cacheIndex[k].timestamp, now) =>
               /\ k \in DOMAIN cacheIndex' /\ cacheIndex'[k] = cacheIndex[k]
               /\ k \in DOMAIN files => (k \in DOMAIN files' /\ files'[k] = files[k])
CleanupSweepsExpiredOnly ==
    [][cacheOp'.op = "cleanup" => (NoExpiredEntry' /\ FreshEntriesKept)]_vars

\* a cleanup that removed an expired entry from both tiers and kept a fresh
\* one in both
CleanupSweepsExpiredOnlyWitness ==
    /\ cacheOp.op = "cleanup"
    /\ cacheRet.ret = 2
    /\ \E p, q \in Paths :
           /\ p \in DOMAIN written /\ ExpiredAt(written[p].at, now)
           /\ KeyOf(p) \notin DOMAIN memoryCache /\ KeyOf(p) \notin DOMAIN cacheIndex
           /\ q \in DOMAIN written /\ ~ExpiredAt(written[q].at, now)
           /\ KeyOf(q) \in DOMAIN memoryCache /\ KeyOf(q) \in DOMAIN cacheIndex
           /\ memoryCache[KeyOf(q)].data = written[q].data

\* ------------------------------------------------------------------------
\* C24: set(p, d) never raises to its caller: when the write of the entry
\* file or of the index file fails, the failure is swallowed, set returns,
\* and the in-process map holds d for p.
\* ------------------------------------------------------------------------
SetNeverRaises ==
    cacheOp.op = "set" =>
        /\ cacheRet.ret # Thrown
        /\ KeyOf(cacheOp.path) \in DOMAIN memoryCache
        /\ memoryCache[KeyOf(cacheOp.path)] =
               [data |-> written[cacheOp.path].data,
                timestamp |-> written[cacheOp.path].at,
                requestPath |-> cacheOp.path]

\* a set whose entry file could not be written: it returned, the durable
\* tier does not list the key, the in-process map holds the body
SetNeverRaisesWitness ==
    /\ cacheOp.op = "set"
    /\ faults.write > 0
    /\ cacheRet.ret = Null
    /\ KeyOf(cacheOp.path) \notin DOMAIN cacheIndex
    /\ memoryCache[KeyOf(cacheOp.path)].data \in Bodies

FileUnusable(p) ==
    /\ KeyOf(p) \in DOMAIN cacheIndex
    /\ KeyOf(p) \notin DOMAIN files \/ ~Parses(files[KeyOf(p)])
UnreadableEntryEvicted ==
    [][\A p \in Paths :
          (GetOf(p) /\ FileUnusable(p)) => (~cacheRet'.hit /\ InNoTier(p)')]_vars

\* C26 as the code has it: a get(p) that finds no fresh entry in the
\* in-process map, on a key whose durable file is missing, unreadable or
\* malformed, returns absent and evicts the entry from the index: afterwards
\* the key is neither in the index nor in the in-process map, and the next
\* get(p) returns absent too.  A malformed file may stay in the directory.
AbsentAfterwards(p) ==
    /\ KeyOf(p) \notin DOMAIN memoryCache
    /\ KeyOf(p) \notin DOMAIN cacheIndex
    /\ ~get(Cache, p, now, NoFault).hit
UnreadableEntryLeavesIndex ==
    [][\A p \in Paths :
          (GetOf(p) /\ FileUnusable(p) /\ ~FreshInHot(p)) =>
              (cacheRet' = [ret |-> Null, hit |-> FALSE] /\ AbsentAfterwards(p)')]_vars

\* a get found the index entry fresh and the file malformed: it returned
\* absent, the index has lost the key, the file is still there
UnreadableEntryLeavesIndexWitness ==
    /\ cacheOp.op = "get"
    /\ cacheOp.found = "unreadable"
    /\ cacheRet = [ret |-> Null, hit |-> FALSE]
    /\ AbsentAfterwards(cacheOp.path)
    /\ KeyOf(cacheOp.path) \in DOMAIN files
    /\ ~Parses(files[KeyOf(cacheOp.path)])

\* ------------------------------------------------------------------------
\* C29: after clear() both tiers are empty: the in-process map and the
\* durable index hold no key, and every later get(p) returns absent until a
\* new set(p, d).
\* ------------------------------------------------------------------------
BothTiersEmpty ==
    /\ memoryCache = EmptyMap
    /\ cacheIndex = EmptyMap
    /\ \A p \in Paths : ~get(Cache, p, now, NoFault).hit
ClearEmptiesBothTiers == [][cacheOp'.op = "clear" => BothTiersEmpty']_vars

\* it is so when no file-system operation of the clear fails
ClearEmptiesBothTiersWithoutFaults ==
    [][(cacheOp'.op = "clear" /\ faults' = faults) => BothTiersEmpty']_vars

\* ------------------------------------------------------------------------
\* C27: createReferenceKey is a pure function of the reference: two
\* references with the same DOI (ignoring case) always get the same key, two
\* references with the same (normalized title, year) pair always get the
\* same key, and references that differ in these identifiers get different
\* keys.
\* ------------------------------------------------------------------------
\* the two references analyzeGaps has given to createReferenceKey, in order
Keyed == <<remote[Library[1].key][1], remote[Library[2].key][1]>>
BothKeyed == gapsCall.called /\ gapsCall.includeUnused
\* they got one key: one record counts both
GotSameKey == Len(gapsResult.frequency) = 1
DoiOfRef(ref) == IF ref.doi # NoText THEN ref.doi ELSE ref.externalIds
SameDoiIgnoringCase(a, b) ==
    DoiOfRef(a) # NoText /\ toLowerCase(DoiOfRef(a)) = toLowerCase(DoiOfRef(b))
SameTitleAndYear(a, b) ==
    normalizeTitle(a.title) = normalizeTitle(b.title) /\ a.year = b.year
\* the key in the record is the key of the reference, whatever the random
\* number drawn
KeysArePure ==
    \A i \in DOMAIN gapsResult.frequency :
        \A salt \in 0..2 :
            gapsResult.frequency[i].key =
                createReferenceKey(gapsResult.frequency[i].reference, salt)
ReferenceKeyByIdentifiers ==
    BothKeyed =>
        /\ KeysArePure
        /\ SameDoiIgnoringCase(Keyed[1], Keyed[2]) => GotSameKey
        /\ SameTitleAndYear(Keyed[1], Keyed[2]) => GotSameKey
        /\ (~SameDoiIgnoringCase(Keyed[1], Keyed[2])
               /\ ~SameTitleAndYear(Keyed[1], Keyed[2])) => ~GotSameKey

\* C27 as the code has it: the key is built from the DOI when the reference
\* has one, and from the title and year only when it has none.  Two
\* references with the same DOI (ignoring case) get the same key; two
\* references without a DOI and with the same (normalized title, year) get
\* the same key; in every other case the keys differ, also when one has a
\* DOI and both have the same title and year.
NoDoi(ref) == DoiOfRef(ref) = NoText
ReferenceKeyByDoiThenTitle ==
    BothKeyed =>
        /\ KeysArePure
        /\ GotSameKey =
              \/ SameDoiIgnoringCase(Keyed[1], Keyed[2])
              \/ /\ NoDoi(Keyed[1]) /\ NoDoi(Keyed[2])
                 /\ SameTitleAndYear(Keyed[1], Keyed[2])

\* the same DOI in two cases, under two titles: one record counts both
ReferenceKeyByDoiThenTitleWitness ==
    /\ BothKeyed
    /\ Keyed = <<KeyRefDoi, KeyRefDoiCase>>
    /\ GotSameKey
    /\ gapsResult.frequency[1].count = 2
    /\ gapsResult.frequency[1].key.kind = "doi"

\* ------------------------------------------------------------------------
\* C31: even when two makeRequest calls on one client are in flight at once
\* and interleave at the rate limiter's sleep, no two outbound calls are
\* issued less than the minimum interval (1100 ms) apart.
\* ------------------------------------------------------------------------
ConcurrentCallsSerialized ==
    \A k \in 1..(Len(pair.issued) - 1) :
        pair.issued[k + 1].at - pair.issued[k].at >= rateLimitDelay

\* C31 as the code has it: every outbound call is issued at least the
\* minimum interval after the watermark its rateLimit read, so a call that
\* entered rateLimit after an earlier call had stamped the watermark is
\* issued at least the minimum interval after that call; calls that read the
\* same watermark are not kept apart.
EnteredAfterStamp(later, earlier) == later.read >= earlier.at
SerializedUnlessInterleaved ==
    /\ \A k \in DOMAIN pair.issued :
           pair.issued[k].at - pair.issued[k].read >= rateLimitDelay
    /\ \A k \in DOMAIN pair.issued : \A j \in 1..(k - 1) :
           EnteredAfterStamp(pair.issued[k], pair.issued[j]) =>
               pair.issued[k].at - pair.issued[j].at >= rateLimitDelay

\* a call entered while the other caller's request was in flight slept in
\* rateLimit on the watermark that request had stamped, and was issued
SerializedUnlessInterleavedWitness ==
    /\ Len(pair.issued) = 2
    /\ pair.issued[2].beside
    /\ pair.issued[2].read = pair.issued[1].at
    /\ pair.issued[2].at - pair.issued[1].at >= rateLimitDelay

\* ------------------------------------------------------------------------
\* C32: get(p) on a key absent from the in-process map but present and fresh
\* in the durable tier returns its payload and leaves the entry in the
\* in-process map; get(p) on a key that is fresh in the in-process map
\* returns its payload and changes neither tier.
\* ------------------------------------------------------------------------
AbsentFromHot(p) == KeyOf(p) \notin DOMAIN memoryCache
\* the index lists the key with a timestamp younger than maxAge and its file
\* holds an entry
FreshInDurable(p) ==
    /\ KeyOf(p) \in DOMAIN cacheIndex
    /\ ~ExpiredAt(cacheIndex[KeyOf(p)].timestamp, now)
    /\ KeyOf(p) \in DOMAIN files
    /\ Parses(files[KeyOf(p)])
StoredEntry(p) == Parse(files[KeyOf(p)])
ReadThroughBy(p) ==
    (GetOf(p) /\ AbsentFromHot(p) /\ FreshInDurable(p)) =>
        /\ cacheRet' = [ret |-> StoredEntry(p).data, hit |-> TRUE]
        /\ KeyOf(p) \in DOMAIN memoryCache'
        /\ memoryCache'[KeyOf(p)] = StoredEntry(p)
        /\ FreshInHot(p)'
HotHitBy(p) ==
    (GetOf(p) /\ FreshInHot(p)) =>
        /\ cacheRet' = [ret |-> memoryCache[KeyOf(p)].data, hit |-> TRUE]
        /\ UNCHANGED cacheVars
GetReadsThrough == [][\A p \in Paths : ReadThroughBy(p) /\ HotHitBy(p)]_vars

\* a get has read a body from the file of a key the in-process map did not
\* hold, and the in-process map holds the entry now
GetReadsThroughWitness ==
    /\ cacheOp.op = "get"
    /\ cacheOp.found = "stored"
    /\ cacheRet.hit
    /\ cacheRet.ret \in Bodies
    /\ FreshInHot(cacheOp.path)
    /\ memoryCache[KeyOf(cacheOp.path)] = StoredEntry(cacheOp.path)

\* ------------------------------------------------------------------------
\* C33: during aggregation, once a Reference Frequency Record has been
\* created its count never decreases, its representative payload stays the
\* first occurrence encountered, and source keys are only ever appended to
\* citedBy (never removed or reordered).
\* ------------------------------------------------------------------------
\* the references visited so far that were counted, in the order visited
Counted(d) == d.ref.title # NoText /\ ~isPaperInBibliography(d.ref, agg.existing)
OccurrencesOf(refKey) ==
    SelectSeq(agg.done, LAMBDA d : Counted(d) /\ createReferenceKey(d.ref, 0) = refKey)
RepresentativeIsFirstOccurrence ==
    \A i \in DOMAIN agg.frequency :
        /\ OccurrencesOf(agg.frequency[i].key) # <<>>
        /\ agg.frequency[i].reference = Head(OccurrencesOf(agg.frequency[i].key)).ref
RecordGrows(before, after) ==
    /\ after.key = before.key
    /\ after.count >= before.count
    /\ after.reference = before.reference
    /\ IsPrefix(before.citedBy, after.citedBy)
RecordsOnlyGrow ==
    /\ []RepresentativeIsFirstOccurrence
    /\ [][\A i \in DOMAIN agg.frequency :
              /\ i \in DOMAIN agg'.frequency
              /\ RecordGrows(agg.frequency[i], agg'.frequency[i])]_vars

\* the loops are under way; a record has been counted for two sources, the
\* later occurrence with another payload than the first, and the record has
\* the first one
RecordsOnlyGrowWitness ==
    /\ agg.at = "counting"
    /\ \E i \in DOMAIN agg.frequency :
          /\ agg.frequency[i].count >= 2
          /\ Len(agg.frequency[i].citedBy) = 2
          /\ \E k \in DOMAIN OccurrencesOf(agg.frequency[i].key) :
                OccurrencesOf(agg.frequency[i].key)[k].ref # agg.frequency[i].reference

\* ------------------------------------------------------------------------
\* C38: in every state reached while analyzeGaps aggregates (after each pass
\* through the loop body), each Reference Frequency Record has
\* count >= length of citedBy >= 1 and citedBy contains no source key twice.
\* ------------------------------------------------------------------------
NoKeyTwice(citedBy) ==
    \A i, j \in DOMAIN citedBy : i # j => citedBy[i] # citedBy[j]
RecordWellFormed(data) ==
    /\ data.count >= Len(data.citedBy)
    /\ Len(data.citedBy) >= 1
    /\ NoKeyTwice(data.citedBy)
RecordsWellFormed ==
    \A i \in DOMAIN agg.frequency : RecordWellFormed(agg.frequency[i])

\* the loops are under way and a source that lists a reference twice has
\* been counted twice and listed once
RecordsWellFormedWitness ==
    /\ agg.at = "counting"
    /\ agg.todo # <<>>
    /\ \E i \in DOMAIN agg.frequency :
          /\ agg.frequency[i].count = 2
          /\ Len(agg.frequency[i].citedBy) = 1

\* ------------------------------------------------------------------------
\* C34: the final count of every Reference Key (and therefore the set of
\* gaps and their counts) is the same for every processing order of the
\* source papers; only the representative payload and the order of citedBy
\* depend on the order.
\* ------------------------------------------------------------------------
\* the referencesMap analyzeGaps was given, and the same entries in every order
GivenReferencesMap ==
    getReferencesForCitations(sources(cited, gapsCall.includeUnused), remote)
Orders(refsMap) ==
    {[i \in DOMAIN refsMap |-> refsMap[f[i]]] :
        f \in {g \in [DOMAIN refsMap -> DOMAIN refsMap] :
                  \A i, j \in DOMAIN refsMap : i # j => g[i] # g[j]}}
\* what does not depend on the order: key, count and the set of citing keys
Tally(records) ==
    {[key |-> r.key, count |-> r.count, citedBy |-> Range(r.citedBy)] :
        r \in Range(records)}
InOrder(refsMap) == analyzeGaps(refsMap, cited, gapsResult.applied)
CountsIndependentOfOrder ==
    agg.at = "returned" =>
        \A refsMap \in Orders(GivenReferencesMap) :
            /\ Tally(InOrder(refsMap).frequency) = Tally(gapsResult.frequency)
            /\ Tally(InOrder(refsMap).gaps) = Tally(gapsResult.gaps)
            /\ Len(InOrder(refsMap).frequency) = Len(gapsResult.frequency)
            /\ Len(InOrder(refsMap).gaps) = Len(gapsResult.gaps)

\* two sources list the same reference with different payloads: it is a gap
\* of count 2, and in the other order it has the other payload and the
\* citing keys in the other order
CountsIndependentOfOrderWitness ==
    /\ agg.at = "returned"
    /\ Len(gapsResult.gaps) = 1
    /\ gapsResult.gaps[1].count = 2
    /\ \E refsMap \in Orders(GivenReferencesMap) :
          /\ InOrder(refsMap).gaps[1].reference # gapsResult.gaps[1].reference
          /\ InOrder(refsMap).gaps[1].citedBy # gapsResult.gaps[1].citedBy
          /\ InOrder(refsMap).gaps[1].count = 2

\* ------------------------------------------------------------------------
\* C35: after buildExistingPapersIndex, every used record appears in each
\* mapping for which it has an identifier: its DOI maps to it in byDOI, its
\* ISBN in byISBN, its normalized title in byNormalizedTitle and its
\* title|year in byTitleAndYear, also when two used records share an
\* identifier.
\* ------------------------------------------------------------------------
UsedList == usedCitationsList(cites.bib, cites.used)
MapsTo(map, identifier, citation) ==
    identifier \in DOMAIN map /\ map[identifier] = citation
AppearsInItsMappings(citation) ==
    LET identifiers == extractIdentifiers(citation)
    IN /\ identifiers.doi # NoText =>
              MapsTo(cites.index.byDOI, toLowerCase(identifiers.doi), citation)
       /\ identifiers.isbn # NoText =>
              MapsTo(cites.index.byISBN, identifiers.isbn, citation)
       /\ identifiers.normalizedTitle # NoText =>
              MapsTo(cites.index.byNormalizedTitle, identifiers.normalizedTitle, citation)
       /\ (identifiers.normalizedTitle # NoText /\ identifiers.year # NoYear) =>
              MapsTo(cites.index.byTitleAndYear,
                     TitleYear(identifiers.normalizedTitle, identifiers.year), citation)
EveryUsedRecordIndexed ==
    "index" \in cites.asked =>
        \A i \in DOMAIN UsedList : AppearsInItsMappings(UsedList[i])

\* what the Maps do hold: every identifier of a used record is a key of its
\* Map, and the sets of keys are those the membership tests read
IdentifiersAreKeys ==
    "index" \in cites.asked =>
        /\ DOMAIN cites.index.byDOI = indexOf(UsedList).byDOI
        /\ DOMAIN cites.index.byNormalizedTitle = indexOf(UsedList).byNormalizedTitle
        /\ DOMAIN cites.index.byTitleAndYear = indexOf(UsedList).byTitleAndYear
        /\ DOMAIN cites.index.byISBN =
              {extractIdentifiers(c).isbn : c \in Range(UsedList)} \ {NoText}

\* ------------------------------------------------------------------------
\* C39: every source record handed to the Metadata Client by findGaps is a
\* record of the bibliography: a citation key that is used in the document
\* but has no bibliography record triggers no lookup and adds no entry to
\* the Existing-Papers Index.
\* ------------------------------------------------------------------------
IsBibRecord(citation) == hasKey(cites.bib, citation.key)
IndexedRecords ==
    UNION {Range(cites.index[m]) :
              m \in {"byDOI", "byISBN", "byNormalizedTitle", "byTitleAndYear"}}
OnlyBibRecordsLookedUp ==
    /\ \A i \in DOMAIN cites.handed : IsBibRecord(cites.handed[i])
    /\ \A citation \in IndexedRecords : IsBibRecord(citation)

\* it is so when the document cites no key the .bib file lacks
OnlyBibRecordsLookedUpWhenAllFound ==
    (\A i \in DOMAIN cites.used : hasKey(cites.bib, cites.used[i])) =>
        OnlyBibRecordsLookedUp

\* ------------------------------------------------------------------------
\* C40: for every bibliography and every set of citation keys used in the
\* document, getStats().totalUnused equals the number of records returned
\* by getUnusedCitations(), also when the document cites keys that are
\* missing from the bibliography.
\* ------------------------------------------------------------------------
TotalUnusedCountsUnused ==
    {"stats", "unused"} \subseteq cites.asked =>
        cites.stats.totalUnused = Len(cites.unused)

\* the two differ by the number of cited keys the .bib file lacks
TotalUnusedShortByMissing ==
    {"stats", "unused"} \subseteq cites.asked =>
        cites.stats.totalUnused = Len(cites.unused) - cites.stats.missingFromBib

\* ------------------------------------------------------------------------
\* C36: the number returned by cleanup() equals the number of cache entries
\* (distinct keys) that were expired before the call and were removed by
\* it; an entry expired in both the in-process map and the durable tier is
\* counted once.
\* ------------------------------------------------------------------------
ExpiredKeysInHot ==
    {k \in DOMAIN memoryCache : ExpiredAt(memoryCache[k].timestamp, now)}
ExpiredKeysInDurable ==
    {k \in DOMAIN cacheIndex : ExpiredAt(cacheIndex[k].timestamp, now)}
ExpiredKeys == ExpiredKeysInHot \cup ExpiredKeysInDurable
CleanupCountsEntries ==
    [][cacheOp'.op = "cleanup" => cacheRet'.ret = Cardinality(ExpiredKeys)]_vars

\* what cleanup returns: the expired keys of the in-process map plus the
\* expired keys of the index
CleanupCountsPerTier ==
    [][cacheOp'.op = "cleanup" =>
          cacheRet'.ret = Cardinality(ExpiredKeysInHot) + Cardinality(ExpiredKeysInDurable)]_vars

\* ---------------------------------------------------------------------
\* C37: the cache is written only on a parsed 200 response (its JSON) or
\* on a 404 (the not-found payload).  A 429, any other status, a malformed
\* body, a connection error or a timeout leaves every cache entry as it
\* was, so whatever the cache holds or serves was stored by a 200 or a 404
\* of this run or was left by an earlier run.
FailedOutcomes == {"malformed", "429", "status", "error", "timeout"}
PayloadOf(outcome, res) == IF outcome = "404" THEN Null ELSE res.data
OthersKept(p) ==
    /\ \A k \in DOMAIN memoryCache \ {KeyOf(p)} :
           k \in DOMAIN memoryCache' /\ memoryCache'[k] = memoryCache[k]
    /\ \A k \in DOMAIN files \ {KeyOf(p)} :
           k \in DOMAIN files' /\ files'[k] = files[k]
WroteEntry(p, data, t) ==
    LET entry == [data |-> data, timestamp |-> t, requestPath |-> p]
    IN  /\ KeyOf(p) \in DOMAIN memoryCache' /\ memoryCache'[KeyOf(p)] = entry
        /\ KeyOf(p) \in DOMAIN files' /\ Parse(files'[KeyOf(p)]) = entry
        /\ DOMAIN memoryCache' = DOMAIN memoryCache \cup {KeyOf(p)}
        /\ DOMAIN files' = DOMAIN files \cup {KeyOf(p)}
        /\ OthersKept(p)
StoredBySuccess(p, entry) ==
    \/ /\ p \in DOMAIN written
       /\ entry.data = written[p].data
       /\ entry.timestamp = written[p].at
    \/ p = PriorPath /\ entry = PriorEntry(PriorPath)
EveryEntryWasStored ==
    /\ \A k \in DOMAIN memoryCache :
           \E p \in Paths : k = KeyOf(p) /\ StoredBySuccess(p, memoryCache[k])
    /\ \A k \in DOMAIN files :
           \E p \in Paths : k = KeyOf(p) /\ StoredBySuccess(p, Parse(files[k]))
ServedWasStored ==
    (result.kind = "resolved" /\ result.fromCache) =>
        \/ reqPath \in DOMAIN written /\ result.data = written[reqPath].data
        \/ reqPath = PriorPath /\ result.data = PriorEntry(PriorPath).data
CacheWrittenOnSuccessOnly ==
    /\ [](EveryEntryWasStored /\ ServedWasStored)
    /\ [][AttemptEnds =>
            IF lastOutcome' \in FailedOutcomes
            THEN UNCHANGED <<cacheVars, written>>
            ELSE /\ lastOutcome' \in {"200", "404"}
                 /\ WroteEntry(reqPath, PayloadOf(lastOutcome', result'), now')]_vars
\* a second lookup failed on a malformed body after an earlier lookup was
\* cached: the failed path has no entry in either tier
CacheWrittenOnSuccessOnlyWitness ==
    /\ calls = 2
    /\ pc = "idle"
    /\ result.kind = "rejected"
    /\ lastOutcome = "malformed"
    /\ written # EmptyMap
    /\ reqPath \notin DOMAIN written
    /\ KeyOf(reqPath) \notin DOMAIN memoryCache
    /\ KeyOf(reqPath) \notin DOMAIN files

====
